---- MODULE Spec2Model ----
(***************************************************************************)
(* Collaborative-Lists: the per-list coordinator (ListDO, a Durable        *)
(* Object), the worker's HTTP routes in front of it, and the client's      *)
(* reconciliation layer, as a state machine.                               *)
(*                                                                         *)
(* Steps.  A handler is cut at its awaits.  An await of the object's own   *)
(* storage (state.storage.put) suspends the handler with the object's      *)
(* input gate closed: no other event is delivered to the object until the  *)
(* write has completed (variable cont).  An await of anything else (the    *)
(* request body, the KV index) leaves the gate open: other events are      *)
(* handled meanwhile (variable pend).                                      *)
(***************************************************************************)
EXTENDS Integers, Sequences, FiniteSets, TLC

----------------------------------------------------------------------------
(* Bounds of the model *)

MaxSessions == 2   \* connections accepted over a run
MaxProviders == 3  \* connections accepted over a run of three providers
MaxClock == 1      \* largest clock value; Date.now() stops advancing there
MaxLedger == 4     \* bytes the ledger may grow to
MaxEchoLedger == 8 \* bytes the ledger may grow to among three providers
MaxOfflineLedger == 10 \* bytes the ledger may grow to over two connections
MaxPending == 1    \* requests that may wait on a non-storage await at once
MaxActs == 2       \* user actions the clients take over a run
MaxAttempts == 4   \* calls of connect() one client makes over a run
MaxShareCalls == 2 \* share requests in progress at once
MaxShares == 3     \* entries of a list's shares array

Keys == 1..MaxProviders
Sessions == 1..MaxSessions   \* the keys of a run of two connections
Times == 0..MaxClock

----------------------------------------------------------------------------
(* The universe the inputs are drawn from *)

OwnerEmail == "o"
Users == {"o", "e", "v"}
ItemIds == {"a", "b"}
FieldIds == {"f", "g"}
Values == {0, 1}
FieldMaps == [FieldIds -> Values]
DefaultFields == [x \in FieldIds |-> 0]

\* Field[] values a schema request may carry (field ids stand for the fields)
Schema0 == <<"f", "g">>
Schemas == {<<"f", "g">>, <<"f">>}

\* binary frames: <<0x01, state vector>>, <<0x02, update>>
Frames == {<<1, 9>>, <<2, 5>>, <<2, 6>>}

\* One run draws its requests from one of these: who acts, on which items
\* and fields, with which kinds of request.
Scenarios ==
  { [name |-> "edit", users |-> {"o", "v"}, ids |-> {"a", "b"},
     fields |-> {"f"}, ledger |-> MaxLedger,
     kinds |-> {"connect", "add", "item-toggle", "item-update-fields",
                "delete", "clear-done"}],
    [name |-> "update", users |-> {"o"}, ids |-> {"a"}, fields |-> {"f", "g"}, ledger |-> MaxLedger,
     kinds |-> {"connect", "add", "update", "delete", "item-toggle",
                "item-update-fields", "clear-done"}],
    [name |-> "ledger", users |-> {"o", "v"}, ids |-> {"a"}, fields |-> {"f"}, ledger |-> MaxLedger,
     kinds |-> {"connect", "add", "binary", "crdt-update"}],
    [name |-> "schema", users |-> {"o", "e"}, ids |-> {"a"},
     fields |-> {"f", "g"}, ledger |-> MaxLedger,
     kinds |-> {"connect", "add", "item-update-fields", "schema"}],
    [name |-> "viewer", users |-> {"o", "v"}, ids |-> {"a"}, fields |-> {"f"}, ledger |-> MaxLedger,
     kinds |-> {"connect", "add", "item-toggle", "item-update-fields",
                "binary", "crdt-update", "forbidden"}],
    [name |-> "presence", users |-> {"o", "e"}, ids |-> {"a"}, fields |-> {"f"}, ledger |-> MaxLedger,
     kinds |-> {"connect", "add", "item-toggle", "binary", "sock", "error",
                "close", "presence-timer"}],
    [name |-> "delete-list", users |-> {"o", "e"}, ids |-> {"a"}, fields |-> {"f"},
     ledger |-> MaxLedger,
     kinds |-> {"connect", "add", "item-toggle", "binary", "delete-list"}],
    [name |-> "closing", users |-> {"o", "e"}, ids |-> {"a"}, fields |-> {"f"},
     ledger |-> MaxLedger,
     kinds |-> {"connect", "connect-closing", "add", "item-toggle",
                "presence-timer"}],
    [name |-> "text", users |-> {"o", "e"}, ids |-> {"a"}, fields |-> {"f"},
     ledger |-> MaxLedger,
     kinds |-> {"connect", "add", "text"}],
    [name |-> "shares", users |-> {"o", "e"}, ids |-> {"a"}, fields |-> {"f"},
     ledger |-> MaxLedger, kinds |-> {"share"},
     emails |-> {"e", "E", "o", "O"}, calls |-> MaxShareCalls],
    [name |-> "roles", users |-> {"o", "e"}, ids |-> {"a"}, fields |-> {"f"},
     ledger |-> MaxLedger,
     kinds |-> {"connect", "add", "item-toggle", "share"},
     emails |-> {"e"}, calls |-> 1],
    [name |-> "patch", users |-> {"o"}, ids |-> {"a"}, fields |-> {"f"},
     ledger |-> MaxLedger, kinds |-> {"connect", "add", "update", "patch-id"}] }

NullDoc == <<-1>>                      \* yjsDocState = null
NoCont == [kind |-> "none"]            \* no handler is suspended on storage
ViewOnly == [type |-> "error", message |-> "View-only access"]

----------------------------------------------------------------------------
VARIABLES
  clients,      \* ListDO.clients: clientKey -> [email, role]
  sock,         \* per key, the server socket: "none" | "open" | "dead" |
                \* "errored" | "closed" | "closing" (never opened, no listeners)
  items,        \* ListDO.items: key -> Item
  schema,       \* ListDO.schema
  listMeta,     \* ListDO.listMeta
  yjsDocState,  \* ListDO.yjsDocState (NullDoc or bytes)
  storage,      \* state.storage: [items, schema, meta, yjsDoc]
  kvMeta,       \* LISTS_INDEX record list:<id>
  now,          \* the coordinator's clock
  timers,       \* pending setTimeout(broadcastPresence, 50) callbacks
  pend,         \* handlers waiting on a request body or on the KV index
  cont,         \* the handler suspended on a storage write
  op,           \* the step just taken: [kind, key, role, phase]
  emit,         \* the messages the step just taken sent: <<[to, msg]>>
  ref,          \* the reference item map of the serial replay
  scn,          \* the requests the environment issues in this run (fixed)
  lastPresence, \* the users of the last presence broadcast made
  created,      \* per stored item, the updatedAt its POST /item carried
  conn,         \* one client's connection: its sync layer, socket and timers
  view,         \* one ListView's items state, an array
  mirror,       \* per session, the client's items (ListView state)
  up,           \* per session, socket messages on their way to the coordinator
  down,         \* per session, socket messages on their way to the client
  http,         \* requests on their way to the worker
  acts,         \* the number of user actions so far
  applied,      \* per user action, how often the store was changed for it
  announced,    \* per user action, how many item-updated broadcasts it caused
  pendAct,      \* the user action of the request waiting on its body
  contAct,      \* the user action of the handler suspended on a storage write
  cache,        \* per session, the client's local items table (db.items)
  ydoc,         \* per session, the deltas the client's replicated document holds
  base,         \* per user action, the deltas the edited document held before it
  hist          \* what has happened: per user action, the field change it was;
                \* per session, the deltas it applied from remote frames

cvars == <<clients, sock, items, schema, listMeta, yjsDocState, storage,
           kvMeta, now, timers, pend, cont, op, emit, ref, scn, lastPresence,
           created, conn, view>>

cli == <<mirror, up, down, http, acts, applied, announced, pendAct, contAct,
         cache, ydoc, base, hist>>

vars == <<cvars, cli>>

----------------------------------------------------------------------------
(* Values *)

Restrict(f, S) == [k \in S |-> f[k]]

\* { ...e, ...u }
Merge(e, u) == [k \in DOMAIN e \cup DOMAIN u |-> IF k \in DOMAIN u THEN u[k] ELSE e[k]]

\* Array.from(this.items.values()); iteration order is taken to be ItemOrder
ItemOrder == <<"a", "b">>

RECURSIVE ValuesFrom(_, _)
ValuesFrom(m, i) ==
  IF i > Len(ItemOrder) THEN <<>>
  ELSE (IF ItemOrder[i] \in DOMAIN m THEN <<m[ItemOrder[i]]>> ELSE <<>>)
         \o ValuesFrom(m, i + 1)

ItemsArray(m) == ValuesFrom(m, 1)

\* the keys of S in ascending order: Map iteration is insertion order, and
\* client keys are handed out in ascending order
RECURSIVE KeySeq(_)
KeySeq(S) ==
  IF S = {} THEN <<>>
  ELSE LET m == CHOOSE x \in S : \A y \in S : x <= y
       IN <<m>> \o KeySeq(S \ {m})

RECURSIVE Flatten(_)
Flatten(ss) == IF ss = <<>> THEN <<>> ELSE Head(ss) \o Flatten(Tail(ss))

\* the messages of q addressed to k
MsgsTo(q, k) ==
  LET r == SelectSeq(q, LAMBDA e : e.to = k)
  IN [i \in 1..Len(r) |-> r[i].msg]

\* Date.now(): the clock does not go back
Stamps == {t \in Times : t = now \/ t = now + 1}

\* getUserRole (worker): owner, the share's role, or none
\* list.shares.find((s) => s.email === email): the index of the first share of
\* that email, 0 if there is none
sharesFind(shares, email) ==
  IF \E i \in 1..Len(shares) : shares[i].email = email
    THEN CHOOSE i \in 1..Len(shares) :
           /\ shares[i].email = email
           /\ \A j \in 1..(i - 1) : shares[j].email # email
    ELSE 0

getUserRole(u, meta) ==
  IF meta.ownerEmail = u THEN "owner"
  ELSE IF sharesFind(meta.shares, u) # 0
         THEN meta.shares[sharesFind(meta.shares, u)].role
         ELSE "none"

\* wire messages
ItemsChanged(m) == [type |-> "items-changed", items |-> ItemsArray(m)]
CrdtSync(bytes) == [type |-> "crdt-sync", data |-> bytes]
ItemAdded(item) == [type |-> "item-added", item |-> item]
ItemUpdated(item) == [type |-> "item-updated", item |-> item]
ItemDeleted(itemId) == [type |-> "item-deleted", itemId |-> itemId]
\* a schema-changed message that carries the schema the list was created with
StaleSchema(s) == [type |-> "schema-changed", schema |-> Schema0]
SchemaChanged(s) == [type |-> "schema-changed", schema |-> s]
Presence(users) == [type |-> "presence", users |-> users]
CrdtUpdate(data) == [type |-> "crdt-update", data |-> data]
Binary(data) == [type |-> "binary", data |-> data]

----------------------------------------------------------------------------
(* ListDO: broadcast *)

\* ListDO.broadcast's loop over registry reg: the sends that succeed
Receivers(reg, excl) == {k \in DOMAIN reg : k # excl /\ sock[k] = "open"}

\* the sends that throw; their entries are deleted
Throwing(reg, excl) == {k \in DOMAIN reg : k # excl /\ sock[k] # "open"}

broadcast(reg, message, excl) ==
  LET ks == KeySeq(Receivers(reg, excl))
  IN [i \in 1..Len(ks) |-> [to |-> ks[i], msg |-> message]]

\* several broadcasts in a row
broadcastAll(reg, messages, excl) ==
  Flatten([i \in 1..Len(messages) |-> broadcast(reg, messages[i], excl)])

\* a broadcast that keeps the sessions whose send threw
KeptAll(reg, excl) == reg

Pruned(reg, excl) == Restrict(reg, DOMAIN reg \ Throwing(reg, excl))

\* broadcastPresence's users: one entry per email, in iteration order
RECURSIVE Dedupe(_, _, _)
Dedupe(reg, ks, seen) ==
  IF ks = <<>> THEN <<>>
  ELSE LET e == reg[Head(ks)].email
       IN IF e \in seen THEN Dedupe(reg, Tail(ks), seen)
          ELSE <<e>> \o Dedupe(reg, Tail(ks), seen \cup {e})

\* broadcastPresence's users
PresenceUsers(reg) == Dedupe(reg, KeySeq(DOMAIN reg), {})

broadcastPresence(reg) ==
  broadcast(reg, Presence(PresenceUsers(reg)), 0)

\* a ledger that keeps the last update only
ReplacedDoc(doc, update) == update

\* yjsDocState after one more update
MergeDoc(doc, update) == IF doc # NullDoc THEN doc \o update ELSE update

DocLen(doc) == IF doc = NullDoc THEN 0 ELSE Len(doc)

----------------------------------------------------------------------------
(* Maps, and the references a waiting handler holds *)

EmptyMap == [x \in {} |-> 0]
Put(m, k, v) == [x \in DOMAIN m \cup {k} |-> IF x = k THEN v ELSE m[x]]
Remove(m, k) == Restrict(m, DOMAIN m \ {k})

\* item.checked = ..., item.fields = ...: the object in the map is changed in
\* place, so a handler that holds it as `existing` sees the change
Touched(ps, itemId, item) ==
  {IF p.kind = "update" /\ p.id = itemId /\ p.live
     THEN [p EXCEPT !.existing = item] ELSE p : p \in ps}

\* items.set(id, another object) / items.delete(id): `existing` no longer is
\* the object in the map
Detached(ps, itemId) ==
  {IF p.kind = "update" /\ p.id = itemId
     THEN [p EXCEPT !.live = FALSE] ELSE p : p \in ps}

----------------------------------------------------------------------------
(* The reference model of the item map: each operation applied whole, at its
   arrival.  It keeps id, fields and checked. *)

Proj(item) == [id |-> item.id, fields |-> item.fields, checked |-> item.checked]
ProjMap(m) == [k \in DOMAIN m |-> Proj(m[k])]

RefAdd(m, item) == Put(m, item.id, Proj(item))
RefToggle(m, itemId, checked) ==
  IF itemId \in DOMAIN m THEN [m EXCEPT ![itemId].checked = checked] ELSE m
RefUpdateFields(m, itemId, fields) ==
  IF itemId \in DOMAIN m
    THEN [m EXCEPT ![itemId].fields =
            [x \in DOMAIN @ \cup DOMAIN fields |->
               IF x \in DOMAIN fields THEN fields[x] ELSE @[x]]]
    ELSE m
RefDelete(m, itemId) == Remove(m, itemId)
RefUpdate(m, itemId, updates) ==
  IF itemId \in DOMAIN m
    THEN [m EXCEPT ![itemId] =
            [x \in DOMAIN @ |-> IF x \in DOMAIN updates THEN updates[x] ELSE @[x]]]
    ELSE m
RefClearDone(m) == Restrict(m, {k \in DOMAIN m : ~m[k].checked})

----------------------------------------------------------------------------
(* Initial state: the list has been created (POST /lists, then /init on its
   object) with schema Schema0 and shared with an editor and a viewer
   (handleAddShare writes the KV record only). *)

Meta0 == [ownerEmail |-> OwnerEmail, schema |-> Schema0, shares |-> <<>>]
Shares0 == <<[email |-> "e", role |-> "editor"], [email |-> "v", role |-> "viewer"]>>

\* LISTS_INDEX holds no record list:<id>: getListMeta returns null and every
\* handler answers 404 before it asks for a role, so nobody has one
NullMeta == [ownerEmail |-> "", schema |-> <<>>, shares |-> <<>>]

\* no sync layer is being followed
NoConn == [client |-> "none"]

\* no client has been opened
\* a user action that was not a field change
NoChange == [key |-> 0, id |-> "", field |-> "", value |-> 0]

CliInit ==
  /\ mirror = [k \in Keys |-> EmptyMap]
  /\ up = [k \in Keys |-> <<>>]
  /\ down = [k \in Keys |-> <<>>]
  /\ http = {}
  /\ acts = 0
  /\ applied = [n \in 1..MaxActs |-> 0]
  /\ announced = [n \in 1..MaxActs |-> 0]
  /\ pendAct = 0
  /\ contAct = 0
  /\ cache = [k \in Keys |-> EmptyMap]
  /\ ydoc = [k \in Keys |-> {}]
  /\ base = [n \in 1..MaxActs |-> {}]
  /\ hist = [named |-> [n \in 1..MaxActs |-> NoChange],
             remote |-> [k \in Keys |-> {}], offline |-> {}]

\* the coordinator and the list clients before any request
ListInit ==
  /\ CliInit
  /\ clients = EmptyMap
  /\ sock = [k \in Keys |-> "none"]
  /\ items = EmptyMap
  /\ schema = Schema0
  /\ listMeta = Meta0
  /\ yjsDocState = NullDoc
  /\ storage = [items |-> EmptyMap, schema |-> Schema0, meta |-> Meta0,
                yjsDoc |-> NullDoc]
  /\ kvMeta = [Meta0 EXCEPT !.shares = Shares0]
  /\ now = 0
  /\ timers = 0
  /\ pend = {}
  /\ cont = NoCont
  /\ op = [kind |-> "init", key |-> 0, role |-> "owner", phase |-> "done"]
  /\ emit = <<>>
  /\ ref = EmptyMap
  /\ scn \in Scenarios
  /\ lastPresence = <<>>
  /\ created = EmptyMap

Init == ListInit /\ conn = NoConn /\ view = <<>>

\* the input gate is open
Idle == cont = NoCont

\* the message listener of key k can be called
Listening(k) == k \in DOMAIN clients /\ sock[k] = "open"

Step(kind, key, role, phase) ==
  op' = [kind |-> kind, key |-> key, role |-> role, phase |-> phase]

\* suspend on `await this.state.storage.put(slot, value)`; after it, broadcast
\* messages to everyone but excl
Await(kind, key, role, slot, value, messages, excl) ==
  cont' = [kind |-> kind, key |-> key, role |-> role, slot |-> slot,
           value |-> value, messages |-> messages, excl |-> excl]

----------------------------------------------------------------------------
(* ListDO.handleWebSocket *)

\* a snapshot of the items alone
SnapshotItemsOnly(k) == <<[to |-> k, msg |-> ItemsChanged(items)]>>

\* a snapshot that also carries the schema
SnapshotWithSchema(k) ==
  <<[to |-> k, msg |-> [type |-> "items-changed", items |-> ItemsArray(items),
                        schema |-> schema]]>>
    \o (IF yjsDocState # NullDoc /\ Len(yjsDocState) > 0
          THEN <<[to |-> k, msg |-> CrdtSync(yjsDocState)]>> ELSE <<>>)

\* the messages sent to a new session before anything else
\* a snapshot only the first connection is sent
SnapshotOnce(k) ==
  IF k = 1 THEN <<[to |-> k, msg |-> ItemsChanged(items)]>> ELSE <<>>

Snapshot(k) ==
  <<[to |-> k, msg |-> ItemsChanged(items)]>>
    \o (IF yjsDocState # NullDoc /\ Len(yjsDocState) > 0
          THEN <<[to |-> k, msg |-> CrdtSync(yjsDocState)]>> ELSE <<>>)

\* connections a run accepts: three when the scenario is of three providers
Accepted == IF scn.name = "echo" THEN MaxProviders ELSE MaxSessions

\* worker handleWebSocket (role from the KV record), then ListDO.handleWebSocket
Connect(u) ==
  /\ Idle
  /\ getUserRole(u, kvMeta) # "none"
  /\ \E k \in Keys :
       /\ k <= Accepted
       /\ sock[k] = "none"
       /\ \A j \in Keys : j < k => sock[j] # "none"
       /\ sock' = [sock EXCEPT ![k] = "open"]
       /\ clients' = Put(clients, k, [email |-> u, role |-> getUserRole(u, kvMeta)])
       /\ emit' = Snapshot(k)
       /\ timers' = timers + 1
       /\ Step("connect", k, getUserRole(u, kvMeta), "done")
  /\ UNCHANGED <<scn, conn, view, lastPresence, created, items, schema, listMeta, yjsDocState, storage, kvMeta, now,
                 pend, cont, ref>>

\* ListDO.handleWebSocket on a connection that is already closing: the
\* session is registered, the snapshot's server.send throws, and the
\* exception leaves handleWebSocket before the presence timer is set and
\* before the message, close and error listeners are attached
ConnectClosing(u) ==
  /\ Idle
  /\ getUserRole(u, kvMeta) # "none"
  /\ \E k \in Keys :
       /\ k <= Accepted
       /\ sock[k] = "none"
       /\ \A j \in Keys : j < k => sock[j] # "none"
       /\ sock' = [sock EXCEPT ![k] = "closing"]
       /\ clients' = Put(clients, k, [email |-> u, role |-> getUserRole(u, kvMeta)])
       /\ Step("connect-closing", k, getUserRole(u, kvMeta), "threw")
  /\ emit' = <<>>
  /\ UNCHANGED <<scn, conn, view, lastPresence, created, items, schema, listMeta, yjsDocState, storage,
                 kvMeta, now, timers, pend, cont, ref>>

\* a listener that lets every role through
AnyRoleWrites(role) == FALSE

\* a field update that replaces the field map
ReplacedFields(item, fields) == fields

\* userRole === 'viewer'
ViewOnlyRole(role) == role = "viewer"

\* the role the index record gives the session's user now
roleNow(k) == IF getUserRole(clients[k].email, kvMeta) = "none"
                THEN "viewer" ELSE getUserRole(clients[k].email, kvMeta)

\* handleWebSocket's userRole, which the session's listeners close over
userRole(k) == clients[k].role

\* { ...item.fields, ...msg.fields }
MergedFields(item, fields) == Merge(item.fields, fields)

\* server.send(error); return
Reject(kind, k) ==
  /\ emit' = <<[to |-> k, msg |-> ViewOnly]>>
  /\ Step(kind, k, clients[k].role, "rejected")
  /\ UNCHANGED <<scn, conn, view, lastPresence, created, clients, sock, items, schema, listMeta, yjsDocState, storage,
                 kvMeta, now, timers, pend, cont, ref>>

\* a handler that returns without an effect
Nothing(kind, k, role, phase) ==
  /\ emit' = <<>>
  /\ Step(kind, k, role, phase)
  /\ UNCHANGED <<scn, conn, view, lastPresence, created, clients, sock, items, schema, listMeta, yjsDocState, storage,
                 kvMeta, now, timers, pend, cont, ref>>

\* message listener, event.data instanceof ArrayBuffer
OnBinary(k, data) ==
  /\ Idle /\ Listening(k)
  /\ IF ViewOnlyRole(userRole(k))
       THEN Nothing("binary", k, "viewer", "rejected")
       ELSE /\ DocLen(yjsDocState) + Len(data) <= scn.ledger
            /\ yjsDocState' = MergeDoc(yjsDocState, data)
            /\ Await("binary", k, clients[k].role, "yjsDoc",
                     MergeDoc(yjsDocState, data), <<Binary(data)>>, k)
            /\ emit' = <<>>
            /\ Step("binary", k, clients[k].role, "start")
            /\ UNCHANGED <<scn, conn, view, lastPresence, created, clients, sock, items, schema, listMeta, storage,
                           kvMeta, now, timers, pend, ref>>

\* message listener, msg.type === 'crdt-update'
OnCrdtUpdate(k, data) ==
  /\ Idle /\ Listening(k)
  /\ IF ViewOnlyRole(userRole(k))
       THEN Reject("crdt-update", k)
       ELSE /\ DocLen(yjsDocState) + Len(data) <= scn.ledger
            /\ yjsDocState' = MergeDoc(yjsDocState, data)
            /\ Await("crdt-update", k, clients[k].role, "yjsDoc",
                     MergeDoc(yjsDocState, data), <<CrdtUpdate(data)>>, k)
            /\ emit' = <<>>
            /\ Step("crdt-update", k, clients[k].role, "start")
            /\ UNCHANGED <<scn, conn, view, lastPresence, created, clients, sock, items, schema, listMeta, storage,
                           kvMeta, now, timers, pend, ref>>

\* textual frames a session may send: one that is a message, others that are
\* not JSON
ToggleText == "{\"type\":\"item-toggle\",\"itemId\":\"a\",\"checked\":true}"
MalformedTexts == {"", "{", "item-toggle"}
Texts == {ToggleText} \cup MalformedTexts

\* a parser that reads every text as the toggle message
ParsedLeniently(text) ==
  [ok |-> TRUE, msg |-> [type |-> "item-toggle", itemId |-> "a", checked |-> TRUE]]

\* JSON.parse(event.data): the message, or a SyntaxError
JsonParse(text) ==
  IF text = ToggleText
    THEN [ok |-> TRUE,
          msg |-> [type |-> "item-toggle", itemId |-> "a", checked |-> TRUE]]
    ELSE [ok |-> FALSE]

\* whom the item-updated of an item-toggle is not sent to (0: nobody)
ToggleExclude(k) == 0

\* message listener, msg.type === 'item-toggle'
OnItemToggle(k, itemId, checked) ==
  /\ Idle /\ Listening(k)
  /\ IF ViewOnlyRole(userRole(k))
       THEN Reject("item-toggle", k)
       ELSE IF itemId \in DOMAIN items
         THEN \E t \in Stamps :
                LET item == [items[itemId] EXCEPT !.checked = checked,
                                                  !.updatedAt = t]
                    after == [items EXCEPT ![itemId] = item]
                IN /\ items' = after
                   /\ pend' = Touched(pend, itemId, item)
                   /\ now' = t
                   /\ ref' = RefToggle(ref, itemId, checked)
                   /\ Await("item-toggle", k, clients[k].role, "items", after,
                            <<ItemUpdated(item)>>, ToggleExclude(k))
                   /\ emit' = <<>>
                   /\ Step("item-toggle", k, clients[k].role, "start")
                   /\ UNCHANGED <<scn, conn, view, lastPresence, created, clients, sock, schema, listMeta, yjsDocState,
                                  storage, kvMeta, timers>>
         ELSE Nothing("item-toggle", k, clients[k].role, "noop")

\* message listener, msg.type === 'item-update-fields'
OnItemUpdateFields(k, itemId, fields) ==
  /\ Idle /\ Listening(k)
  /\ IF ViewOnlyRole(userRole(k))
       THEN Reject("item-update-fields", k)
       ELSE IF itemId \in DOMAIN items
         THEN \E t \in Stamps :
                LET item == [items[itemId] EXCEPT
                               !.fields = MergedFields(items[itemId], fields),
                               !.updatedAt = t]
                    after == [items EXCEPT ![itemId] = item]
                IN /\ items' = after
                   /\ pend' = Touched(pend, itemId, item)
                   /\ now' = t
                   /\ ref' = RefUpdateFields(ref, itemId, fields)
                   /\ Await("item-update-fields", k, clients[k].role, "items",
                            after, <<ItemUpdated(item)>>, k)
                   /\ emit' = <<>>
                   /\ Step("item-update-fields", k, clients[k].role, "start")
                   /\ UNCHANGED <<scn, conn, view, lastPresence, created, clients, sock, schema, listMeta, yjsDocState,
                                  storage, kvMeta, timers>>
         ELSE Nothing("item-update-fields", k, clients[k].role, "noop")

\* the storage write a handler awaits has completed; the handler goes on to
\* its broadcast
StorageDone ==
  /\ cont # NoCont
  /\ cont.kind \notin {"schema-meta", "schema"}
  /\ storage' = [storage EXCEPT ![cont.slot] = cont.value]
  /\ emit' = broadcastAll(clients, cont.messages, cont.excl)
  /\ clients' = IF cont.messages # <<>> THEN Pruned(clients, cont.excl) ELSE clients
  /\ cont' = NoCont
  /\ Step(cont.kind, cont.key, cont.role, "done")
  /\ UNCHANGED <<scn, conn, view, lastPresence, created, sock, items, schema, listMeta, yjsDocState, kvMeta, now,
                 timers, pend, ref>>

\* message listener, event.data a string: JSON.parse inside the try block;
\* the catch block logs and returns
OnText(k, text) ==
  IF JsonParse(text).ok
    THEN OnItemToggle(k, JsonParse(text).msg.itemId, JsonParse(text).msg.checked)
    ELSE /\ Idle /\ Listening(k)
         /\ Nothing("text", k, clients[k].role, "dropped")

----------------------------------------------------------------------------
(* The worker's item and schema routes, and ListDO.fetch behind them *)

Routes == {"add", "update", "delete", "clear-done", "schema"}

\* the items an add request carries: handleAddItem's newItem, stamped by the
\* client's clock
NewItems ==
  {[id |-> i, fields |-> DefaultFields, checked |-> FALSE, updatedAt |-> t] :
     i \in ItemIds, t \in Times}

CanEdit(u) == getUserRole(u, kvMeta) \in {"owner", "editor"}

\* handleAddItem ... handleUpdateSchema: 403 for a viewer or a stranger
HttpForbidden(u, route) ==
  /\ ~CanEdit(u)
  /\ Nothing(route, 0, getUserRole(u, kvMeta), "rejected")

\* handleAddItem, POST /item
AddItem(u, item) ==
  /\ CanEdit(u) /\ Idle
  /\ items' = Put(items, item.id, item)
  /\ pend' = Detached(pend, item.id)
  /\ ref' = RefAdd(ref, item)
  /\ Await("add", 0, getUserRole(u, kvMeta), "items", Put(items, item.id, item),
           <<ItemAdded(item)>>, 0)
  /\ emit' = <<>>
  /\ Step("add", 0, getUserRole(u, kvMeta), "start")
  /\ created' = Put(created, item.id, item.updatedAt)
  /\ UNCHANGED <<scn, conn, view, lastPresence, clients, sock, schema, listMeta, yjsDocState, storage, kvMeta,
                 now, timers>>

\* handleUpdateItem, PATCH /item/:id up to `await request.json()`
UpdateItemStart(u, itemId, updates) ==
  /\ CanEdit(u) /\ Idle
  /\ IF itemId \in DOMAIN items
       THEN /\ Cardinality(pend) < MaxPending
            /\ pend' = pend \cup
                 {[kind |-> "update", id |-> itemId, updates |-> updates,
                   role |-> getUserRole(u, kvMeta), existing |-> items[itemId],
                   live |-> TRUE]}
            /\ ref' = RefUpdate(ref, itemId, updates)
            /\ emit' = <<>>
            /\ Step("update", 0, getUserRole(u, kvMeta), "start")
            /\ UNCHANGED <<scn, conn, view, lastPresence, created, clients, sock, items, schema, listMeta, yjsDocState,
                           storage, kvMeta, now, timers, cont>>
       ELSE Nothing("update", 0, getUserRole(u, kvMeta), "noop")

\* PATCH /item/:id from the body on
UpdateItemBody(p) ==
  /\ Idle
  /\ p.kind = "update"
  /\ \E t \in Stamps :
       LET updated == [Merge(p.existing, p.updates) EXCEPT !.updatedAt = t]
           after == Put(items, p.id, updated)
       IN /\ items' = after
          /\ now' = t
          /\ pend' = Detached(pend \ {p}, p.id)
          /\ Await("update", 0, p.role, "items", after, <<ItemUpdated(updated)>>, 0)
  /\ emit' = <<>>
  /\ Step("update", 0, p.role, "body")
  /\ UNCHANGED <<scn, conn, view, lastPresence, created, clients, sock, schema, listMeta, yjsDocState, storage, kvMeta,
                 timers, ref>>

\* handleDeleteItem, DELETE /item/:id
DeleteItem(u, itemId) ==
  /\ CanEdit(u) /\ Idle
  /\ items' = Remove(items, itemId)
  /\ pend' = Detached(pend, itemId)
  /\ ref' = RefDelete(ref, itemId)
  /\ Await("delete", 0, getUserRole(u, kvMeta), "items", Remove(items, itemId),
           <<ItemDeleted(itemId)>>, 0)
  /\ emit' = <<>>
  /\ Step("delete", 0, getUserRole(u, kvMeta), "start")
  /\ created' = Remove(created, itemId)
  /\ UNCHANGED <<scn, conn, view, lastPresence, clients, sock, schema, listMeta, yjsDocState, storage, kvMeta,
                 now, timers>>

\* a clear-done that deletes every item
ToDeleteAll == SelectSeq(ItemOrder, LAMBDA i : i \in DOMAIN items)

\* the ids POST /clear-done deletes, in iteration order
ToDelete == SelectSeq(ItemOrder, LAMBDA i : i \in DOMAIN items /\ items[i].checked)

SeqRange(q) == {q[i] : i \in 1..Len(q)}

\* handleClearDone, POST /clear-done up to `await this.saveItems()`
ClearDone(u) ==
  /\ CanEdit(u) /\ Idle
  /\ LET after == Restrict(items, DOMAIN items \ SeqRange(ToDelete))
     IN /\ items' = after
        /\ cont' = [kind |-> "clear-done", key |-> 0,
                    role |-> getUserRole(u, kvMeta), slot |-> "items",
                    value |-> after, messages |-> <<>>, excl |-> 0,
                    cleared |-> Len(ToDelete)]
  /\ emit' = broadcastAll(clients, [i \in 1..Len(ToDelete) |-> ItemDeleted(ToDelete[i])], 0)
  /\ clients' = IF ToDelete # <<>> THEN Pruned(clients, 0) ELSE clients
  /\ pend' = {IF p.kind = "update" /\ p.id \in SeqRange(ToDelete)
                THEN [p EXCEPT !.live = FALSE] ELSE p : p \in pend}
  /\ ref' = RefClearDone(ref)
  /\ Step("clear-done", 0, getUserRole(u, kvMeta), "start")
  /\ created' = Restrict(created, DOMAIN created \ SeqRange(ToDelete))
  /\ UNCHANGED <<scn, conn, view, lastPresence, sock, schema, listMeta, yjsDocState, storage, kvMeta, now, timers>>

\* handleUpdateSchema, PATCH /schema up to saveMeta's storage.put
UpdateSchema(u, s) ==
  /\ CanEdit(u) /\ Idle
  /\ Cardinality(pend) < MaxPending
  /\ schema' = s
  /\ listMeta' = [listMeta EXCEPT !.schema = s]
  /\ cont' = [kind |-> "schema-meta", key |-> 0, role |-> getUserRole(u, kvMeta),
              value |-> [listMeta EXCEPT !.schema = s], schema |-> s,
              wmeta |-> kvMeta]
  /\ emit' = <<>>
  /\ Step("schema", 0, getUserRole(u, kvMeta), "start")
  /\ UNCHANGED <<scn, conn, view, lastPresence, created, clients, sock, items, yjsDocState, storage, kvMeta, now, timers,
                 pend, ref>>

\* saveMeta: the meta record is stored; LISTS_INDEX.put is awaited next
SchemaMetaStored ==
  /\ cont # NoCont
  /\ cont.kind = "schema-meta"
  /\ storage' = [storage EXCEPT !.meta = cont.value]
  /\ pend' = pend \cup {[kind |-> "schema-kv", role |-> cont.role,
                         meta |-> cont.value, schema |-> cont.schema,
                         wmeta |-> cont.wmeta]}
  /\ cont' = NoCont
  /\ emit' = <<>>
  /\ Step("schema", 0, cont.role, "meta")
  /\ UNCHANGED <<scn, conn, view, lastPresence, created, clients, sock, items, schema, listMeta, yjsDocState, kvMeta,
                 now, timers, ref>>

\* saveMeta's LISTS_INDEX.put has completed; saveSchema's storage.put is
\* awaited next, then schema-changed is broadcast
SchemaKvDone(p) ==
  /\ Idle
  /\ p.kind = "schema-kv"
  /\ kvMeta' = p.meta
  /\ pend' = pend \ {p}
  /\ cont' = [kind |-> "schema", key |-> 0, role |-> p.role, slot |-> "schema",
              value |-> schema, messages |-> <<SchemaChanged(p.schema)>>,
              excl |-> 0, schema |-> p.schema, wmeta |-> p.wmeta]
  /\ emit' = <<>>
  /\ Step("schema", 0, p.role, "kv")
  /\ UNCHANGED <<scn, conn, view, lastPresence, created, clients, sock, items, schema, listMeta, yjsDocState, storage,
                 now, timers, ref>>

\* saveSchema has completed: broadcast; back in the worker, the record read at
\* the start is written to the KV index with the new schema
SchemaStored ==
  /\ cont # NoCont
  /\ cont.kind = "schema"
  /\ storage' = [storage EXCEPT !.schema = cont.value]
  /\ emit' = broadcastAll(clients, cont.messages, 0)
  /\ clients' = Pruned(clients, 0)
  /\ pend' = pend \cup {[kind |-> "worker-kv",
                         meta |-> [cont.wmeta EXCEPT !.schema = cont.schema]]}
  /\ cont' = NoCont
  /\ Step("schema", 0, cont.role, "done")
  /\ UNCHANGED <<scn, conn, view, lastPresence, created, sock, items, schema, listMeta, yjsDocState, kvMeta, now,
                 timers, ref>>

\* handleUpdateSchema's own LISTS_INDEX.put has completed
WorkerKvDone(p) ==
  /\ p.kind = "worker-kv"
  /\ kvMeta' = p.meta
  /\ pend' = pend \ {p}
  /\ emit' = <<>>
  /\ Step("schema", 0, "none", "mirrored")
  /\ UNCHANGED <<scn, conn, view, lastPresence, created, clients, sock, items, schema, listMeta, yjsDocState, storage,
                 now, timers, cont, ref>>

\* email.toLowerCase(), for the addresses requests carry
toLowerCase(email) ==
  CASE email = "O" -> "o"
    [] email = "E" -> "e"
    [] email = "V" -> "v"
    [] OTHER -> email

\* ALLOWED_EMAILS holds the users' addresses
isAllowedEmail(email) == toLowerCase(email) \in Users

\* the addresses and roles share requests carry
ShareEmails == IF "share" \in scn.kinds THEN scn.emails ELSE {}
ShareRoles == {"viewer", "editor"}

\* a list shared with nobody, whatever its shares
NeverShared(shares, email) == FALSE

\* meta.shares.some((s) => s.email === email)
sharesSome(shares, email) == \E i \in 1..Len(shares) : shares[i].email = email

\* meta.shares.filter((s) => s.email !== email)
sharesFilter(shares, email) == SelectSeq(shares, LAMBDA sh : sh.email # email)

ShareCalls == {p \in pend : p.kind = "share"}

\* handleAddShare, handleUpdateShare, handleRemoveShare up to the first await
\* after getListMeta: the record is read, the caller must be the owner
ShareStart(route, u, email, role) ==
  IF kvMeta = NullMeta \/ kvMeta.ownerEmail # u
    THEN Nothing(route, 0, getUserRole(u, kvMeta), "rejected")
    ELSE /\ Cardinality(ShareCalls) < scn.calls
         /\ pend' = pend \cup {[kind |-> "share", route |-> route, user |-> u,
                                 email |-> email, role |-> role,
                                 meta |-> kvMeta]}
         /\ emit' = <<>>
         /\ Step(route, 0, "owner", "start")
         /\ UNCHANGED <<scn, conn, view, lastPresence, created, clients, sock,
                        items, schema, listMeta, yjsDocState, storage, kvMeta,
                        now, timers, cont, ref>>

\* a share handler ends: the record it holds is written, or nothing is
ShareEnd(p, written, phase) ==
  /\ kvMeta' = written
  /\ pend' = pend \ {p}
  /\ emit' = <<>>
  /\ Step(p.route, 0, "owner", phase)
  /\ UNCHANGED <<scn, conn, view, lastPresence, created, clients, sock, items,
                 schema, listMeta, yjsDocState, storage, now, timers, cont,
                 ref>>

\* handleAddShare from the body on
AddShareBody(p) ==
  /\ p.kind = "share" /\ p.route = "add-share"
  /\ IF \/ ~isAllowedEmail(p.email)
        \/ toLowerCase(p.email) = p.user
        \/ sharesSome(p.meta.shares, toLowerCase(p.email))
       THEN ShareEnd(p, kvMeta, "rejected")
       ELSE /\ Len(p.meta.shares) < MaxShares
            /\ ShareEnd(p, [p.meta EXCEPT !.shares =
                              Append(@, [email |-> toLowerCase(p.email),
                                         role |-> p.role])], "done")

\* handleUpdateShare from the body on
UpdateShareBody(p) ==
  /\ p.kind = "share" /\ p.route = "update-share"
  /\ LET i == sharesFind(p.meta.shares, toLowerCase(p.email))
     IN IF i = 0
          THEN ShareEnd(p, kvMeta, "rejected")
          ELSE ShareEnd(p, [p.meta EXCEPT !.shares[i].role = p.role], "done")

\* handleRemoveShare after getListMeta
RemoveShareBody(p) ==
  /\ p.kind = "share" /\ p.route = "remove-share"
  /\ ShareEnd(p, [p.meta EXCEPT !.shares =
                    sharesFilter(@, toLowerCase(p.email))], "done")

\* handleDeleteList, DELETE /lists/:id: the index record and the users'
\* indices are deleted; the list's object is not called
DeleteList(u) ==
  IF kvMeta # NullMeta /\ kvMeta.ownerEmail = u
    THEN /\ kvMeta' = NullMeta
         /\ emit' = <<>>
         /\ Step("delete-list", 0, "owner", "done")
         /\ UNCHANGED <<scn, conn, view, lastPresence, created, clients, sock, items, schema, listMeta, yjsDocState,
                        storage, now, timers, pend, cont, ref>>
    ELSE Nothing("delete-list", 0, getUserRole(u, kvMeta), "rejected")

----------------------------------------------------------------------------
(* Presence, close and error *)

\* setTimeout(() => this.broadcastPresence(), 50)
PresenceTimer ==
  /\ Idle
  /\ timers > 0
  /\ timers' = timers - 1
  /\ emit' = broadcastPresence(clients)
  /\ lastPresence' = PresenceUsers(clients)
  /\ clients' = Pruned(clients, 0)
  /\ Step("presence-timer", 0, "none", "done")
  /\ UNCHANGED <<scn, conn, view, created, sock, items, schema, listMeta, yjsDocState, storage, kvMeta,
                 now, pend, cont, ref>>

\* the peer goes away: from now on send() on the server socket throws
SockDies(k) ==
  /\ sock[k] = "open"
  /\ sock' = [sock EXCEPT ![k] = "dead"]
  /\ emit' = <<>>
  /\ Step("sock", k, "none", "done")
  /\ UNCHANGED <<scn, conn, view, lastPresence, created, clients, items, schema, listMeta, yjsDocState, storage, kvMeta,
                 now, timers, pend, cont, ref>>

\* the 'error' listener
OnError(k) ==
  /\ Idle
  /\ sock[k] = "dead"
  /\ sock' = [sock EXCEPT ![k] = "errored"]
  /\ emit' = broadcastPresence(Remove(clients, k))
  /\ lastPresence' = PresenceUsers(Remove(clients, k))
  /\ clients' = Pruned(Remove(clients, k), 0)
  /\ Step("error", k, "none", "done")
  /\ UNCHANGED <<scn, conn, view, created, items, schema, listMeta, yjsDocState, storage, kvMeta, now,
                 timers, pend, cont, ref>>

\* the 'close' listener
OnClose(k) ==
  /\ Idle
  /\ sock[k] \in {"dead", "errored"}
  /\ sock' = [sock EXCEPT ![k] = "closed"]
  /\ emit' = broadcastPresence(Remove(clients, k))
  /\ lastPresence' = PresenceUsers(Remove(clients, k))
  /\ clients' = Pruned(Remove(clients, k), 0)
  /\ Step("close", k, "none", "done")
  /\ UNCHANGED <<scn, conn, view, created, items, schema, listMeta, yjsDocState, storage, kvMeta, now,
                 timers, pend, cont, ref>>

----------------------------------------------------------------------------
(* The coordinator with its sessions and the worker's routes *)

On(kind) == kind \in scn.kinds

\* the updates the scenario's requests carry
ScnBodies ==
  {[checked |-> c] : c \in BOOLEAN}
    \cup {[fields |-> fm] : fm \in {m \in FieldMaps :
                                     \A x \in FieldIds \ scn.fields : m[x] = 0}}
    \cup (IF On("patch-id") THEN {[id |-> i] : i \in ItemIds} ELSE {})

Next ==
  \/ \E u \in scn.users : On("connect") /\ Connect(u) /\ UNCHANGED cli
  \/ \E u \in scn.users :
       On("connect-closing") /\ ConnectClosing(u) /\ UNCHANGED cli
  \/ \E k \in Keys, data \in Frames : On("binary") /\ OnBinary(k, data) /\ UNCHANGED cli
  \/ \E k \in Keys, data \in Frames : On("crdt-update") /\ OnCrdtUpdate(k, data) /\ UNCHANGED cli
  \/ \E k \in Keys, i \in scn.ids, c \in BOOLEAN :
       On("item-toggle") /\ OnItemToggle(k, i, c) /\ UNCHANGED cli
  \/ \E k \in Keys, i \in scn.ids, x \in scn.fields, v \in Values :
       On("item-update-fields") /\ OnItemUpdateFields(k, i, x :> v) /\ UNCHANGED cli
  \/ \E k \in Keys, text \in Texts : On("text") /\ OnText(k, text) /\ UNCHANGED cli
  \/ StorageDone /\ UNCHANGED cli
  \/ \E u \in scn.users, r \in Routes : On("forbidden") /\ HttpForbidden(u, r) /\ UNCHANGED cli
  \/ \E u \in scn.users, item \in NewItems :
       On("add") /\ item.id \in scn.ids /\ AddItem(u, item) /\ UNCHANGED cli
  \/ \E u \in scn.users, i \in scn.ids, b \in ScnBodies :
       On("update") /\ UpdateItemStart(u, i, b) /\ UNCHANGED cli
  \/ \E p \in pend : UpdateItemBody(p) /\ UNCHANGED cli
  \/ \E u \in scn.users, i \in scn.ids : On("delete") /\ DeleteItem(u, i) /\ UNCHANGED cli
  \/ \E u \in scn.users : On("clear-done") /\ ClearDone(u) /\ UNCHANGED cli
  \/ \E u \in scn.users, s \in Schemas : On("schema") /\ UpdateSchema(u, s) /\ UNCHANGED cli
  \/ SchemaMetaStored /\ UNCHANGED cli
  \/ \E p \in pend : SchemaKvDone(p) /\ UNCHANGED cli
  \/ SchemaStored /\ UNCHANGED cli
  \/ \E p \in pend : WorkerKvDone(p) /\ UNCHANGED cli
  \/ \E u \in scn.users : On("delete-list") /\ DeleteList(u) /\ UNCHANGED cli
  \/ \E u \in scn.users, e \in ShareEmails, r \in ShareRoles :
       On("share") /\ ShareStart("add-share", u, e, r) /\ UNCHANGED cli
  \/ \E u \in scn.users, e \in ShareEmails, r \in ShareRoles :
       On("share") /\ ShareStart("update-share", u, e, r) /\ UNCHANGED cli
  \/ \E u \in scn.users, e \in ShareEmails :
       On("share") /\ ShareStart("remove-share", u, e, "viewer") /\ UNCHANGED cli
  \/ \E p \in pend : AddShareBody(p) /\ UNCHANGED cli
  \/ \E p \in pend : UpdateShareBody(p) /\ UNCHANGED cli
  \/ \E p \in pend : RemoveShareBody(p) /\ UNCHANGED cli
  \/ On("presence-timer") /\ PresenceTimer /\ UNCHANGED cli
  \/ \E k \in Keys : On("sock") /\ SockDies(k) /\ UNCHANGED cli
  \/ \E k \in Keys : On("error") /\ OnError(k) /\ UNCHANGED cli
  \/ \E k \in Keys : On("close") /\ OnClose(k) /\ UNCHANGED cli

Spec == Init /\ [][Next]_vars

----------------------------------------------------------------------------
(* Clients: ListView with useListSync, one per session, their socket and
   their requests.  Socket messages travel in order on each connection; a
   request travels on its own and may overtake them.  The clocks of the
   clients are taken to agree with the coordinator's. *)

SyncScn ==
  [name |-> "sync", users |-> {"o", "e"}, ids |-> {"a"}, fields |-> {"f"},
   ledger |-> MaxLedger, kinds |-> {"toggle", "field", "delete"}]

\* one client with its local items table, whose requests may be lost
CacheScn ==
  [name |-> "cache", users |-> {"o"}, ids |-> {"a", "b"}, fields |-> {"f"},
   ledger |-> MaxLedger,
   kinds |-> {"add", "toggle", "field", "delete", "clear-done", "fail"}]

\* replicated-document providers of the owner, an editor and a viewer
YjsScn ==
  [name |-> "yjs", users |-> {"o", "e", "v"}, ids |-> {"a"}, fields |-> {"f"},
   ledger |-> 3 * MaxLedger, kinds |-> {"provider", "edit"}]

\* two editors who change the fields of one item
FieldsScn ==
  [name |-> "fields", users |-> {"o", "e"}, ids |-> {"a"},
   fields |-> {"f", "g"}, ledger |-> MaxLedger, kinds |-> {"field"}]

SyncScenarios == {SyncScn, CacheScn, YjsScn, FieldsScn}

Item0 == [id |-> "a", fields |-> DefaultFields, checked |-> FALSE, updatedAt |-> 0]

\* the list holds one stored item and no session is open
OneItemStored ==
  /\ CliInit
  /\ clients = EmptyMap
  /\ sock = [k \in Keys |-> "none"]
  /\ items = Put(EmptyMap, "a", Item0)
  /\ schema = Schema0
  /\ listMeta = Meta0
  /\ yjsDocState = NullDoc
  /\ storage = [items |-> Put(EmptyMap, "a", Item0), schema |-> Schema0,
                meta |-> Meta0, yjsDoc |-> NullDoc]
  /\ kvMeta = [Meta0 EXCEPT !.shares = Shares0]
  /\ now = 0
  /\ timers = 0
  /\ pend = {}
  /\ cont = NoCont
  /\ op = [kind |-> "add", key |-> 0, role |-> "owner", phase |-> "done"]
  /\ emit = <<>>
  /\ ref = ProjMap(Put(EmptyMap, "a", Item0))
  /\ lastPresence = <<>>
  /\ created = Put(EmptyMap, "a", Item0.updatedAt)
  /\ conn = NoConn
  /\ view = <<>>

SyncInit == OneItemStored /\ scn \in SyncScenarios

\* ws.send: the messages of q join the channels of their recipients
Delivered(ch, q) == [k \in Keys |-> ch[k] \o MsgsTo(q, k)]

FromArray(arr) ==
  [id \in {arr[i].id : i \in 1..Len(arr)} |->
     arr[CHOOSE i \in 1..Len(arr) : arr[i].id = id]]

\* useListSync's message switch with ListView's callbacks
onMessage(m, msg) ==
  CASE msg.type = "items-changed" -> FromArray(msg.items)
    [] msg.type = "item-added" ->
         IF msg.item.id \in DOMAIN m THEN m ELSE Put(m, msg.item.id, msg.item)
    [] msg.type = "item-updated" ->
         IF msg.item.id \in DOMAIN m THEN Put(m, msg.item.id, msg.item) ELSE m
    [] msg.type = "item-deleted" -> Remove(m, msg.itemId)
    [] OTHER -> m

\* db.ts upsertLocalItem / removeLocalItem on one client's items table
upsertLocalItem(c, item, synced) ==
  Put(c, item.id, [id |-> item.id, fields |-> item.fields,
                   checked |-> item.checked, updatedAt |-> item.updatedAt,
                   synced |-> synced])

removeLocalItem(c, itemId) == Remove(c, itemId)

\* useListSync's message switch: what it writes to the local items table
persistMessage(c, msg) ==
  CASE msg.type = "items-changed" ->
         [id \in DOMAIN c \cup DOMAIN FromArray(msg.items) |->
            IF id \in DOMAIN FromArray(msg.items)
              THEN upsertLocalItem(c, FromArray(msg.items)[id], TRUE)[id]
              ELSE c[id]]
    [] msg.type \in {"item-added", "item-updated"} ->
         upsertLocalItem(c, msg.item, TRUE)
    [] msg.type = "item-deleted" -> removeLocalItem(c, msg.itemId)
    [] OTHER -> c

\* the list client: ListView with useListSync
ListClient == "provider" \notin scn.kinds

\* useListSync.connect, for a user with no session yet
SyncConnect(u) ==
  /\ ListClient
  /\ \A k \in DOMAIN clients : clients[k].email # u
  /\ Connect(u)
  /\ down' = Delivered(down, emit')
  /\ UNCHANGED <<mirror, up, http, acts, applied, announced, pendAct, contAct,
                 cache, ydoc, base, hist>>

\* useListSync's ws.onmessage
ClientReceive(k) ==
  /\ ListClient
  /\ down[k] # <<>>
  /\ mirror' = [mirror EXCEPT ![k] = onMessage(@, Head(down[k]))]
  /\ cache' = [cache EXCEPT ![k] = persistMessage(@, Head(down[k]))]
  /\ down' = [down EXCEPT ![k] = Tail(@)]
  /\ UNCHANGED <<cvars, up, http, acts, applied, announced, pendAct, contAct, ydoc, base, hist>>

\* an id generateId() has not handed out: nothing refers to it
FreshId(id) ==
  /\ id \notin DOMAIN items
  /\ \A k \in Keys : id \notin DOMAIN mirror[k] /\ id \notin DOMAIN cache[k]
  /\ \A r \in http : IF r.route = "clear-done" THEN TRUE ELSE r.id # id
  /\ \A p \in pend : p.kind # "update" \/ p.id # id
  /\ \A k \in Keys : \A i \in 1..Len(down[k]) :
       /\ down[k][i].type \in {"item-added", "item-updated"} => down[k][i].item.id # id
       /\ down[k][i].type = "item-deleted" => down[k][i].itemId # id
  /\ \A k \in Keys : \A i \in 1..Len(up[k]) : up[k][i].itemId # id

\* ListView.handleAddItem up to `await addItem(...)`
handleAddItem(k, id) ==
  /\ acts < MaxActs
  /\ Listening(k)
  /\ FreshId(id)
  /\ LET newItem == [id |-> id, fields |-> DefaultFields, checked |-> FALSE,
                     updatedAt |-> now]
     IN /\ mirror' = [mirror EXCEPT ![k] = Put(@, id, newItem)]
        /\ cache' = [cache EXCEPT ![k] = upsertLocalItem(@, newItem, FALSE)]
        /\ http' = http \cup
             {[route |-> "add", user |-> clients[k].email, id |-> id,
               key |-> k, item |-> newItem, act |-> acts + 1, state |-> "sent"]}
  /\ acts' = acts + 1
  /\ UNCHANGED <<cvars, up, down, applied, announced, pendAct, contAct, ydoc, base, hist>>

\* ListView.handleToggle: the local change, the intent, the request
handleToggle(k, itemId, checked) ==
  /\ acts < MaxActs
  /\ Listening(k)
  /\ itemId \in DOMAIN mirror[k]
  /\ acts' = acts + 1
  /\ mirror' = [mirror EXCEPT ![k][itemId] =
                  [@ EXCEPT !.checked = checked, !.updatedAt = now]]
  /\ up' = [up EXCEPT ![k] =
              Append(@, [type |-> "item-toggle", itemId |-> itemId,
                         checked |-> checked, act |-> acts + 1])]
  /\ http' = http \cup
       {[route |-> "update", user |-> clients[k].email, id |-> itemId,
         updates |-> [checked |-> checked], act |-> acts + 1]}
  /\ UNCHANGED <<cvars, down, applied, announced, pendAct, contAct, cache, ydoc, base, hist>>

\* ListView.handleFieldChange: the request carries the whole field map the
\* client holds, with the one field changed
handleFieldChange(k, itemId, fieldId, value) ==
  /\ acts < MaxActs
  /\ Listening(k)
  /\ itemId \in DOMAIN mirror[k]
  /\ acts' = acts + 1
  /\ mirror' = [mirror EXCEPT ![k][itemId] =
                  [@ EXCEPT !.fields = Merge(@, fieldId :> value),
                            !.updatedAt = now]]
  /\ up' = [up EXCEPT ![k] =
              Append(@, [type |-> "item-update-fields", itemId |-> itemId,
                         fields |-> fieldId :> value, act |-> acts + 1])]
  /\ http' = http \cup
       {[route |-> "update", user |-> clients[k].email, id |-> itemId,
         updates |-> [fields |-> Merge(mirror[k][itemId].fields, fieldId :> value)],
         act |-> acts + 1]}
  /\ hist' = [hist EXCEPT !.named[acts + 1] =
                [key |-> k, id |-> itemId, field |-> fieldId, value |-> value]]
  /\ UNCHANGED <<cvars, down, applied, announced, pendAct, contAct, cache, ydoc, base>>

\* ListView.handleDeleteItem
handleDeleteItem(k, itemId) ==
  /\ acts < MaxActs
  /\ Listening(k)
  /\ itemId \in DOMAIN mirror[k]
  /\ acts' = acts + 1
  /\ mirror' = [mirror EXCEPT ![k] = Remove(@, itemId)]
  /\ cache' = [cache EXCEPT ![k] = removeLocalItem(@, itemId)]
  /\ http' = http \cup
       {[route |-> "delete", user |-> clients[k].email, id |-> itemId,
         act |-> acts + 1]}
  /\ UNCHANGED <<cvars, up, down, applied, announced, pendAct, contAct, ydoc, base, hist>>

\* ListView.handleClearDone
handleClearDone(k) ==
  /\ acts < MaxActs
  /\ Listening(k)
  /\ acts' = acts + 1
  /\ LET doneIds == {i \in DOMAIN mirror[k] : mirror[k][i].checked}
     IN /\ mirror' = [mirror EXCEPT ![k] = Restrict(@, DOMAIN @ \ doneIds)]
        /\ cache' = [cache EXCEPT ![k] = Restrict(@, DOMAIN @ \ doneIds)]
  /\ http' = http \cup
       {[route |-> "clear-done", user |-> clients[k].email, act |-> acts + 1]}
  /\ UNCHANGED <<cvars, up, down, applied, announced, pendAct, contAct, ydoc, base, hist>>

\* the user action n is counted when the coordinator changes the store for it
Counted(n) ==
  /\ applied' = IF cont' # NoCont THEN [applied EXCEPT ![n] = @ + 1] ELSE applied
  /\ contAct' = IF cont' # NoCont THEN n ELSE contAct

\* the coordinator's message listener is called with the next message of k
ServerReceive(k) ==
  /\ up[k] # <<>>
  /\ LET m == Head(up[k])
     IN \/ /\ m.type = "item-toggle"
           /\ OnItemToggle(k, m.itemId, m.checked)
           /\ Counted(m.act)
        \/ /\ m.type = "item-update-fields"
           /\ OnItemUpdateFields(k, m.itemId, m.fields)
           /\ Counted(m.act)
        \/ /\ m.type = "binary"
           /\ OnBinary(k, m.data)
           /\ UNCHANGED <<applied, contAct>>
  /\ up' = [up EXCEPT ![k] = Tail(@)]
  /\ down' = Delivered(down, emit')
  /\ UNCHANGED <<mirror, http, acts, announced, pendAct, cache, ydoc, base, hist>>

\* a POST /item reaches the worker and the coordinator
HttpAdd(r) ==
  /\ r.route = "add" /\ r.state = "sent"
  /\ AddItem(r.user, r.item)
  /\ http' = (http \ {r}) \cup {[r EXCEPT !.state = "handling"]}
  /\ contAct' = r.act
  /\ UNCHANGED <<mirror, up, down, acts, applied, announced, pendAct, cache, ydoc, base, hist>>

\* handleAddItem after `await addItem(...)` has returned the item
AddAnswered(r) ==
  /\ r.route = "add" /\ r.state = "answered"
  /\ cache' = [cache EXCEPT ![r.key] = upsertLocalItem(@, r.item, TRUE)]
  /\ http' = http \ {r}
  /\ UNCHANGED <<cvars, mirror, up, down, acts, applied, announced, pendAct,
                 contAct, ydoc, base, hist>>

\* a PATCH reaches the worker and the coordinator
HttpUpdate(r) ==
  /\ r.route = "update"
  /\ UpdateItemStart(r.user, r.id, r.updates)
  /\ http' = http \ {r}
  /\ pendAct' = IF pend' # pend THEN r.act ELSE pendAct
  /\ UNCHANGED <<mirror, up, down, acts, applied, announced, contAct, cache, ydoc, base, hist>>

\* its body has been read
SyncUpdateBody(p) ==
  /\ UpdateItemBody(p)
  /\ applied' = [applied EXCEPT ![pendAct] = @ + 1]
  /\ contAct' = pendAct
  /\ UNCHANGED <<mirror, up, down, http, acts, announced, pendAct, cache, ydoc, base, hist>>

\* a DELETE reaches the worker and the coordinator
HttpDelete(r) ==
  /\ r.route = "delete"
  /\ DeleteItem(r.user, r.id)
  /\ http' = http \ {r}
  /\ contAct' = r.act
  /\ UNCHANGED <<mirror, up, down, acts, applied, announced, pendAct, cache, ydoc, base, hist>>

\* a POST /clear-done reaches the worker and the coordinator
HttpClearDone(r) ==
  /\ r.route = "clear-done"
  /\ ClearDone(r.user)
  /\ http' = http \ {r}
  /\ contAct' = r.act
  /\ down' = Delivered(down, emit')
  /\ UNCHANGED <<mirror, up, acts, applied, announced, pendAct, cache, ydoc, base, hist>>

\* fetch rejects (the client is offline): the handlers' catch blocks do nothing
HttpFails(r) ==
  /\ IF r.route = "add" THEN r.state = "sent" ELSE TRUE
  /\ http' = http \ {r}
  /\ UNCHANGED <<cvars, mirror, up, down, acts, applied, announced, pendAct,
                 contAct, cache, ydoc, base, hist>>

\* the storage write is done and the handler broadcasts and answers
SyncStorageDone ==
  /\ StorageDone
  /\ down' = Delivered(down, emit')
  /\ announced' =
       IF cont.kind \in {"item-toggle", "item-update-fields", "update"}
            /\ emit' # <<>>
         THEN [announced EXCEPT ![contAct] = @ + 1] ELSE announced
  /\ http' = {IF cont.kind = "add" /\ r.route = "add" /\ r.state = "handling"
                THEN [r EXCEPT !.state = "answered"] ELSE r : r \in http}
  /\ UNCHANGED <<mirror, up, acts, applied, pendAct, contAct, cache, ydoc, base, hist>>

----------------------------------------------------------------------------
(* Clients: ListYjsProvider, one per session.  A replicated document is the
   set of deltas it holds; an update is a set of deltas, a state vector the
   set of deltas its sender holds.  A frame is a type byte followed by the
   payload, one byte per delta. *)

Deltas == {5, 6}

\* 0x01 frame: Y.encodeStateVector(doc) behind its type byte
StateVector(S) == <<1>> \o KeySeq(S)

\* 0x02 frame: an update behind its type byte
Update(S) == <<2>> \o KeySeq(S)

\* data.slice(1)
Payload(data) == {data[i] : i \in 2..Len(data)}

\* a provider that drops the updates it is sent
IgnoredUpdate(doc, payload) == doc

\* Y.applyUpdate(doc, payload, 'remote')
applyUpdate(doc, payload) == doc \cup payload

\* Y.encodeStateAsUpdate(doc, stateVector)
encodeStateAsUpdate(doc, sv) == doc \ sv

\* ListYjsProvider.sendBinary on a socket in state ws: the frames it sends
sendBinary(ws, update) ==
  IF ws = "open" THEN <<Binary(Update(update))>> ELSE <<>>

\* a provider that sends every update of its document, whatever its origin
EchoedUpdate(ws, update, origin) == sendBinary(ws, update)

\* ListYjsProvider.handleDocUpdate, the document's update listener
handleDocUpdate(ws, update, origin) ==
  IF origin = "remote" THEN <<>> ELSE sendBinary(ws, update)

\* ListYjsProvider.connect and ws.onopen, for a user with no session yet
ProviderConnect(u) ==
  /\ ~ListClient
  /\ \A k \in DOMAIN clients : clients[k].email # u
  /\ Connect(u)
  /\ down' = Delivered(down, emit')
  /\ up' = [k \in Keys |->
              IF sock[k] = "none" /\ sock'[k] = "open"
                THEN <<Binary(StateVector(ydoc[k]))>> ELSE up[k]]
  /\ UNCHANGED <<mirror, http, acts, applied, announced, pendAct, contAct,
                 cache, ydoc, base, hist>>

\* a local edit: the document's update event, handleDocUpdate, sendBinary
ProviderEdit(k, d) ==
  /\ acts < MaxActs
  /\ Listening(k)
  /\ \A j \in Keys : d \notin ydoc[j]
  /\ acts' = acts + 1
  /\ ydoc' = [ydoc EXCEPT ![k] = @ \cup {d}]
  /\ base' = [base EXCEPT ![acts + 1] = ydoc[k]]
  /\ up' = [up EXCEPT ![k] = @ \o handleDocUpdate(sock[k], {d}, "local")]
  /\ UNCHANGED <<cvars, mirror, down, http, applied, announced, pendAct,
                 contAct, cache, hist>>

\* ListYjsProvider's ws.onmessage
ProviderReceive(k) ==
  /\ ~ListClient
  /\ down[k] # <<>>
  /\ LET m == Head(down[k])
     IN IF m.type = "binary" /\ Len(m.data) > 0 /\ m.data[1] = 2
          THEN /\ ydoc' = [ydoc EXCEPT ![k] = applyUpdate(@, Payload(m.data))]
               /\ hist' = [hist EXCEPT !.remote[k] = @ \cup Payload(m.data)]
               /\ up' = [up EXCEPT ![k] =
                           @ \o handleDocUpdate(sock[k], Payload(m.data), "remote")]
          ELSE IF m.type = "binary" /\ Len(m.data) > 0 /\ m.data[1] = 1
                 THEN /\ up' = [up EXCEPT ![k] = Append(@,
                           Binary(Update(encodeStateAsUpdate(ydoc[k], Payload(m.data)))))]
                      /\ UNCHANGED <<ydoc, hist>>
                 ELSE UNCHANGED <<ydoc, up, hist>>
  /\ down' = [down EXCEPT ![k] = Tail(@)]
  /\ UNCHANGED <<cvars, mirror, http, acts, applied, announced, pendAct,
                 contAct, cache, base>>

SyncNext ==
  \/ \E u \in scn.users : SyncConnect(u)
  \/ \E k \in Keys : ClientReceive(k)
  \/ \E k \in Keys, i \in scn.ids : On("add") /\ handleAddItem(k, i)
  \/ \E k \in Keys, i \in scn.ids, c \in BOOLEAN :
       On("toggle") /\ handleToggle(k, i, c)
  \/ \E k \in Keys, i \in scn.ids, x \in scn.fields, v \in Values :
       On("field") /\ handleFieldChange(k, i, x, v)
  \/ \E k \in Keys, i \in scn.ids : On("delete") /\ handleDeleteItem(k, i)
  \/ \E k \in Keys : On("clear-done") /\ handleClearDone(k)
  \/ \E k \in Keys : ServerReceive(k)
  \/ \E r \in http : HttpAdd(r)
  \/ \E r \in http : AddAnswered(r)
  \/ \E r \in http : HttpUpdate(r)
  \/ \E p \in pend : SyncUpdateBody(p)
  \/ \E r \in http : HttpDelete(r)
  \/ \E r \in http : HttpClearDone(r)
  \/ \E r \in http : On("fail") /\ HttpFails(r)
  \/ SyncStorageDone
  \/ \E u \in scn.users : ProviderConnect(u)
  \/ \E k \in Keys, d \in Deltas : On("edit") /\ ProviderEdit(k, d)
  \/ \E k \in Keys : ProviderReceive(k)

SpecSync == SyncInit /\ [][SyncNext]_vars

\* three providers, owner and two editors, and one local edit
EchoScn ==
  [name |-> "echo", users |-> {"o", "e", "f"}, ids |-> {"a"}, fields |-> {"f"},
   ledger |-> MaxEchoLedger, kinds |-> {"provider", "edit"}]

\* the list is empty and shared with two editors; no session is open
ProvidersInit(s) ==
  /\ CliInit
  /\ clients = EmptyMap
  /\ sock = [k \in Keys |-> "none"]
  /\ items = EmptyMap
  /\ schema = Schema0
  /\ listMeta = Meta0
  /\ yjsDocState = NullDoc
  /\ storage = [items |-> EmptyMap, schema |-> Schema0, meta |-> Meta0,
                yjsDoc |-> NullDoc]
  /\ kvMeta = [Meta0 EXCEPT !.shares = <<[email |-> "e", role |-> "editor"],
                                         [email |-> "f", role |-> "editor"]>>]
  /\ now = 0
  /\ timers = 0
  /\ pend = {}
  /\ cont = NoCont
  /\ op = [kind |-> "init", key |-> 0, role |-> "owner", phase |-> "done"]
  /\ emit = <<>>
  /\ ref = EmptyMap
  /\ scn = s
  /\ lastPresence = <<>>
  /\ created = EmptyMap
  /\ conn = NoConn
  /\ view = <<>>

EchoInit == ProvidersInit(EchoScn)

EchoNext ==
  \/ \E u \in scn.users : ProviderConnect(u)
  \/ On("edit") /\ ProviderEdit(1, 5)
  \/ \E k \in Keys : ProviderReceive(k)
  \/ \E k \in Keys : ServerReceive(k)
  \/ SyncStorageDone

SpecEcho == EchoInit /\ [][EchoNext]_vars

----------------------------------------------------------------------------
(* One provider whose connection is lost and made again.  The provider keeps
   its document; every connection is a new session of the coordinator. *)

OfflineScn ==
  [name |-> "offline", users |-> {"o"}, ids |-> {"a"}, fields |-> {"f"},
   ledger |-> MaxOfflineLedger, kinds |-> {"provider", "edit"}]

OfflineInit == ProvidersInit(OfflineScn)

\* the session of the provider's last connection
Live(k) == sock[k] # "none" /\ \A j \in Keys : j > k => sock[j] = "none"

\* the provider is constructed: its first connect()
FirstConnect(u) ==
  /\ sock[1] = "none"
  /\ ProviderConnect(u)

\* the connection is lost
ConnectionLost(k) ==
  /\ SockDies(k)
  /\ UNCHANGED cli

\* the coordinator's 'close' listener
SessionClosed(k) ==
  /\ OnClose(k)
  /\ down' = Delivered(down, emit')
  /\ UNCHANGED <<mirror, up, http, acts, applied, announced, pendAct, contAct,
                 cache, ydoc, base, hist>>

\* a local edit while this.ws is null or not open: the document's update
\* event, handleDocUpdate, sendBinary
EditOffline(k, d) ==
  /\ acts < MaxActs
  /\ Live(k) /\ sock[k] # "open"
  /\ \A j \in Keys : d \notin ydoc[j]
  /\ acts' = acts + 1
  /\ ydoc' = [ydoc EXCEPT ![k] = @ \cup {d}]
  /\ base' = [base EXCEPT ![acts + 1] = ydoc[k]]
  /\ up' = [up EXCEPT ![k] = @ \o handleDocUpdate(sock[k], {d}, "local")]
  /\ hist' = [hist EXCEPT !.offline = @ \cup {d}]
  /\ UNCHANGED <<cvars, mirror, down, http, applied, announced, pendAct,
                 contAct, cache>>

\* ws.onclose's timer fires: connect() and ws.onopen, with the document the
\* provider holds
Reconnect(k) ==
  /\ Live(k) /\ sock[k] # "open"
  /\ Connect(OwnerEmail)
  /\ down' = Delivered(down, emit')
  /\ ydoc' = [j \in Keys |->
                IF sock[j] = "none" /\ sock'[j] = "open" THEN ydoc[k] ELSE ydoc[j]]
  /\ up' = [j \in Keys |->
              IF sock[j] = "none" /\ sock'[j] = "open"
                THEN <<Binary(StateVector(ydoc[k]))>> ELSE up[j]]
  /\ UNCHANGED <<mirror, http, acts, applied, announced, pendAct, contAct,
                 cache, base, hist>>

OfflineNext ==
  \/ \E u \in scn.users : FirstConnect(u)
  \/ \E k \in Keys : ConnectionLost(k)
  \/ \E k \in Keys : SessionClosed(k)
  \/ \E k \in Keys : On("edit") /\ ProviderEdit(k, 6)
  \/ \E k \in Keys : On("edit") /\ EditOffline(k, 5)
  \/ \E k \in Keys : Reconnect(k)
  \/ \E k \in Keys : ProviderReceive(k)
  \/ \E k \in Keys : ServerReceive(k)
  \/ SyncStorageDone

SpecOffline == OfflineInit /\ [][OfflineNext]_vars

\* the runtimes run every handler that is due and the reconnect timer fires;
\* the user need not do anything
OfflineFair ==
  /\ WF_vars(\E k \in Keys : SessionClosed(k))
  /\ WF_vars(\E k \in Keys : Reconnect(k))
  /\ WF_vars(\E k \in Keys : ProviderReceive(k))
  /\ WF_vars(\E k \in Keys : ServerReceive(k))
  /\ WF_vars(SyncStorageDone)

SpecOfflineLive == SpecOffline /\ OfflineFair

----------------------------------------------------------------------------
(* Properties of the coordinator *)

MutationKinds ==
  {"binary", "crdt-update", "item-toggle", "item-update-fields",
   "add", "update", "delete", "clear-done", "schema"}

WsKinds == {"binary", "crdt-update", "item-toggle", "item-update-fields"}

SentTo(k) == MsgsTo(emit, k)

\* C1: a step taken for a viewer's mutation attempt, over the socket or over
\* an item or schema route, leaves the item map, the schema and the ledger
\* (in memory and in storage) as they were and sends nothing to any session
\* but the sender's.
C1_ViewerChangesNothing ==
  [][(op'.role = "viewer" /\ op'.kind \in MutationKinds) =>
       /\ items' = items
       /\ schema' = schema
       /\ yjsDocState' = yjsDocState
       /\ storage' = storage
       /\ \A i \in 1..Len(emit') : emit'[i].to = op'.key]_vars

\* a viewer's item-toggle on an existing item was turned away while another
\* session was connected
C1_Witness ==
  /\ op.role = "viewer" /\ op.kind = "item-toggle" /\ op.phase = "rejected"
  /\ "a" \in DOMAIN items
  /\ \E k \in DOMAIN clients : k # op.key /\ sock[k] = "open"

\* C2: every mutation attempt a viewer makes over the socket is answered by
\* exactly one error message, "View-only access", to the sender.
C2_ViewerGetsError ==
  (op.role = "viewer" /\ op.kind \in WsKinds) =>
     emit = <<[to |-> op.key, msg |-> ViewOnly]>>

\* what storage holds when message m is sent
Stored(m) ==
  CASE m.type \in {"item-added", "item-updated"} ->
         /\ m.item.id \in DOMAIN storage.items
         /\ storage.items[m.item.id] = m.item
    [] m.type = "item-deleted" -> m.itemId \notin DOMAIN storage.items
    [] m.type = "items-changed" -> m.items = ItemsArray(storage.items)
    [] m.type = "schema-changed" -> storage.schema = m.schema
    [] m.type = "crdt-sync" -> storage.yjsDoc = m.data
    [] m.type \in {"crdt-update", "binary"} ->
         /\ storage.yjsDoc # NullDoc
         /\ Len(storage.yjsDoc) >= Len(m.data)
         /\ SubSeq(storage.yjsDoc, Len(storage.yjsDoc) - Len(m.data) + 1,
                   Len(storage.yjsDoc)) = m.data
    [] OTHER -> TRUE

\* C3: whenever a message announcing a mutation is sent, the mutation is
\* already in durable storage.
C3_StoredBeforeSent == \A i \in 1..Len(emit) : Stored(emit[i].msg)

\* the snapshot a session is owed in the current state
Owed ==
  <<ItemsChanged(items)>>
    \o (IF DocLen(yjsDocState) > 0 THEN <<CrdtSync(yjsDocState)>> ELSE <<>>)

\* C4: the first messages a session receives are, in the step that registers
\* it, one items-changed with the current items and then, iff the ledger is
\* not empty, one crdt-sync with the whole ledger; no message reaches a
\* session that has not been registered, so nothing precedes them.
C4_SnapshotFirst ==
  [][/\ \A i \in 1..Len(emit') :
          emit'[i].to \in DOMAIN clients
            \/ (op'.kind = "connect" /\ emit'[i].to = op'.key)
     /\ (op'.kind = "connect" /\ op'.key \notin DOMAIN clients) =>
          /\ op'.key \in DOMAIN clients'
          /\ MsgsTo(emit', op'.key) = Owed']_vars

\* a session was registered while the list had an item and a non-empty ledger
C4_Witness ==
  /\ op.kind = "connect"
  /\ Len(emit) = 2
  /\ emit[2].msg.type = "crdt-sync"
  /\ items # EmptyMap

C6_NotEchoed ==
  (op.kind \in {"item-toggle", "item-update-fields"} /\ op.phase = "done") =>
     /\ \A i \in 1..Len(emit) : emit[i].to # op.key
     /\ \A k \in DOMAIN clients :
          (k # op.key /\ sock[k] = "open") => SentTo(k) # <<>>

C8_Serialized == (Idle /\ pend = {}) => ProjMap(items) = ref

----------------------------------------------------------------------------
(* Properties of the clients with the coordinator *)

\* nothing is on its way and no handler is waiting
Quiet ==
  /\ Idle /\ pend = {} /\ http = {}
  /\ \A k \in Keys : up[k] = <<>> /\ down[k] = <<>>

\* C9: once every message and request has been delivered and handled, the
\* items of every connected session's client are the coordinator's items
\* (update stamps aside).
C9_MirrorsConverge ==
  Quiet => \A k \in DOMAIN clients :
             sock[k] = "open" => ProjMap(mirror[k]) = ProjMap(items)

\* C10: for one toggle or field change of a user the store is changed at most
\* once and at most one item-updated broadcast is made.
C10_AtMostOnce ==
  \A n \in 1..MaxActs : applied[n] <= 1 /\ announced[n] <= 1

----------------------------------------------------------------------------
(* Properties of the client's local cache *)

\* the local items table of session k shows item id as the list on screen does
CacheShows(c, m, id) ==
  IF id \in DOMAIN m
    THEN /\ id \in DOMAIN c
         /\ c[id].fields = m[id].fields
         /\ c[id].checked = m[id].checked
    ELSE id \notin DOMAIN c

\* C11: when a ListView handler (add, toggle, field change, delete,
\* clear-done) has run for a user action, the local items table shows every
\* item the handler changed as the handler left it.
C11_CacheReflects ==
  [][acts' = acts + 1 =>
       \A k \in Keys : \A id \in DOMAIN mirror[k] \cup DOMAIN mirror'[k] :
          (id \in DOMAIN mirror[k]) # (id \in DOMAIN mirror'[k])
            \/ (id \in DOMAIN mirror[k] /\ mirror[k][id] # mirror'[k][id])
          => CacheShows(cache'[k], mirror'[k], id)]_vars

----------------------------------------------------------------------------
(* Properties of the ledger *)

DocBytes(doc) == IF doc = NullDoc THEN <<>> ELSE doc

IsPrefix(p, q) == Len(p) <= Len(q) /\ SubSeq(q, 1, Len(p)) = p

LedgerKinds == {"binary", "crdt-update"}

\* the step completes a ledger delta: its storage write is done
LedgerDone == cont.kind \in LedgerKinds /\ cont' = NoCont

\* the delta the sessions are sent by this step
Forwarded == cont.messages[1]

\* C12: a ledger delta of a non-viewer is merged and the merged ledger is
\* persisted; then the delta is sent unchanged, once, to every other session
\* that stays registered and not to the sender; the persisted ledger then
\* equals the one in memory, and the ledger only ever grows at its end.
C12_MergedStoredForwarded ==
  [][/\ IsPrefix(DocBytes(yjsDocState), DocBytes(yjsDocState'))
     /\ LedgerDone =>
          /\ cont.role # "viewer"
          /\ storage'.yjsDoc = yjsDocState'
          /\ yjsDocState' = MergeDoc(storage.yjsDoc, Forwarded.data)
          /\ Forwarded.type = cont.kind
          /\ MsgsTo(emit', cont.key) = <<>>
          /\ \A k \in DOMAIN clients' \ {cont.key} :
               MsgsTo(emit', k) = <<Forwarded>>
          /\ \A k \in Keys \ DOMAIN clients' : MsgsTo(emit', k) = <<>>]_vars

\* a second delta has been merged, persisted and forwarded to another session
C12_Witness ==
  /\ op.kind \in LedgerKinds /\ op.phase = "done"
  /\ emit # <<>>
  /\ emit[1].to # op.key
  /\ storage.yjsDoc = yjsDocState
  /\ Len(yjsDocState) > Len(emit[1].msg.data)

\* C13: merging delta A and then delta B into a ledger gives the same ledger
\* as merging B and then A.
C13_MergeCommutes ==
  \A a \in Frames, b \in Frames :
     MergeDoc(MergeDoc(yjsDocState, a), b) = MergeDoc(MergeDoc(yjsDocState, b), a)

----------------------------------------------------------------------------
(* Properties of the replicated documents *)

\* the deltas of the update frames in bytes, read frame by frame: type is the
\* type byte of the frame being read
RECURSIVE UpdateDeltas(_, _)
UpdateDeltas(bytes, type) ==
  IF bytes = <<>> THEN {}
  ELSE IF Head(bytes) \notin Deltas THEN UpdateDeltas(Tail(bytes), Head(bytes))
  ELSE (IF type = 2 THEN {Head(bytes)} ELSE {}) \cup UpdateDeltas(Tail(bytes), type)

\* the deltas of the update frames stored in the ledger
LedgerDeltas(doc) == UpdateDeltas(DocBytes(doc), 0)

\* nothing is on its way between the providers and the coordinator
YjsQuiet ==
  /\ ~ListClient
  /\ cont = NoCont
  /\ \A k \in Keys : up[k] = <<>> /\ down[k] = <<>>

\* C14: a session that joined when the ledger held deltas holds every delta of
\* the ledger once it has processed what the coordinator sent it, also when
\* it is alone and also when it is a viewer.
C14_JoinerGetsLedger ==
  YjsQuiet => \A k \in DOMAIN clients :
                 sock[k] = "open" => LedgerDeltas(yjsDocState) \subseteq ydoc[k]

\* both sessions are open sessions of editors (owner or editor)
TwoEditors ==
  /\ DOMAIN clients = Sessions
  /\ \A k \in Sessions : sock[k] = "open" /\ clients[k].role # "viewer"

\* C15: when two connected editors have sent ledger deltas and the
\* coordinator has processed them and everything has been delivered, the two
\* replicated documents hold the same deltas, in whichever order the deltas
\* reached the coordinator.
C15_EditorsConverge ==
  (YjsQuiet /\ TwoEditors) => \A j \in Sessions, k \in Sessions : ydoc[j] = ydoc[k]

\* two edits, neither made with the other's delta in the document, have both
\* reached both documents
C15_Witness ==
  /\ YjsQuiet /\ TwoEditors
  /\ acts = 2
  /\ base[1] = {} /\ base[2] = {}
  /\ \A k \in Sessions : ydoc[k] = Deltas

----------------------------------------------------------------------------
(* Properties of list deletion *)

\* handleDeleteList has succeeded
Deleted == kvMeta = NullMeta

\* C16: once the list is deleted its sessions are closed: the registry is
\* empty and the coordinator accepts no further operation from a session.
C16_DeletionClosesSessions ==
  [][Deleted =>
       /\ DOMAIN clients = {}
       /\ ~(op'.kind \in WsKinds /\ op'.phase = "start")]_vars

\* C17: once the list is deleted the coordinator's persisted items and ledger
\* are empty.
C17_DeletionCascades ==
  Deleted => storage.items = EmptyMap /\ storage.yjsDoc = NullDoc

----------------------------------------------------------------------------
(* Properties of presence *)

Emails(reg) == {reg[k].email : k \in DOMAIN reg}

SeqSet(q) == {q[i] : i \in 1..Len(q)}

NoRepeat(q) == \A i, j \in 1..Len(q) : q[i] = q[j] => i = j

\* the registry a presence broadcast of this step is computed from
PresenceRegistry ==
  IF op'.kind \in {"close", "error"} THEN Remove(clients, op'.key) ELSE clients

\* every presence message of a step lists each identity once, and exactly the
\* identities registered when it is sent
PresenceExact ==
  [][\A i \in 1..Len(emit') :
       emit'[i].msg.type = "presence" =>
         /\ NoRepeat(emit'[i].msg.users)
         /\ SeqSet(emit'[i].msg.users) = Emails(PresenceRegistry)]_vars

\* with no presence timer pending, the last presence broadcast lists the
\* identities of the registered sessions (if any is left to be told)
PresenceCurrent ==
  (Idle /\ timers = 0 /\ DOMAIN clients # {})
    => SeqSet(lastPresence) = Emails(clients)

\* C18: a presence message lists each identity at most once and exactly the
\* identities registered when it is sent; after any change of the registry
\* (connect, close, error, pruning) and once the pending presence timers have
\* fired, the last presence broadcast lists the identities of the sessions
\* registered now.
C18_PresenceCurrent == PresenceExact /\ []PresenceCurrent

----------------------------------------------------------------------------
(* Properties of broadcast *)

\* the step is the broadcast that follows a handler's storage write
BroadcastStep ==
  /\ cont # NoCont /\ cont' = NoCont
  /\ cont.kind \notin {"schema-meta", "schema"}
  /\ cont.messages # <<>>

\* the sessions the broadcast is to reach
Targeted == DOMAIN clients \ {cont.excl}

\* C19: when the send to a session fails during a broadcast, that session is
\* removed from the registry, every other targeted session still receives
\* the messages, the operation completes, and items, schema and ledger are
\* as they were.
C19_FailedSendPrunes ==
  [][BroadcastStep =>
       /\ \A k \in Targeted :
            IF sock[k] = "open"
              THEN k \in DOMAIN clients' /\ MsgsTo(emit', k) = cont.messages
              ELSE k \notin DOMAIN clients' /\ MsgsTo(emit', k) = <<>>
       /\ DOMAIN clients \ DOMAIN clients' \subseteq Targeted
       /\ op'.phase = "done"
       /\ storage'[cont.slot] = cont.value
       /\ items' = items /\ schema' = schema /\ yjsDocState' = yjsDocState]_vars

\* a storage handler's broadcast has reached one session while the session
\* whose socket is dead (no close or error event handled, no presence timer
\* fired) is no longer registered
C19_Witness ==
  /\ op.kind \in {"add", "item-toggle"} /\ op.phase = "done"
  /\ emit # <<>>
  /\ timers = MaxSessions
  /\ \E k \in Keys : sock[k] = "dead" /\ k \notin DOMAIN clients
  /\ \A k \in Sessions : sock[k] \in {"open", "dead"}

----------------------------------------------------------------------------
(* Properties of connect *)

\* C20: connect on a connection that is already closing fails silently: no
\* exception leaves the coordinator, and the registry holds no session for
\* that connection.
C20_ClosingConnectSilent ==
  op.kind = "connect-closing" =>
    /\ op.phase # "threw"
    /\ op.key \notin DOMAIN clients

----------------------------------------------------------------------------
(* Properties of operations on a missing item *)

\* the step completes a DELETE /item/:id whose id was not in the store
DeleteOfMissing ==
  /\ cont.kind = "delete" /\ cont' = NoCont
  /\ cont.messages[1].itemId \notin DOMAIN storage.items

\* C21: an update, toggle or delete that names an id not in the store leaves
\* the store as it is and sends no broadcast, on the socket intents and on
\* the item routes.
C21_MissingIdNoop ==
  [][/\ op'.phase = "noop" =>
          items' = items /\ storage' = storage /\ emit' = <<>> /\ cont' = NoCont
     /\ DeleteOfMissing => storage'.items = storage.items /\ emit' = <<>>]_vars

----------------------------------------------------------------------------
(* Properties of malformed messages *)

\* C22: a text that cannot be parsed is dropped: items, schema, ledger,
\* storage and the registry are as before, nothing is sent to anyone, and the
\* sender is still registered with its listener ready for the next message.
C22_MalformedDropped ==
  [][\A k \in Keys, text \in MalformedTexts :
       OnText(k, text) =>
         /\ items' = items /\ schema' = schema /\ yjsDocState' = yjsDocState
         /\ storage' = storage
         /\ clients' = clients
         /\ emit' = <<>>
         /\ Idle' /\ Listening(k)']_vars

\* an unparsable text of one of two sessions has just been dropped while the
\* list holds an item
C22_Witness ==
  /\ op.kind = "text" /\ op.phase = "dropped"
  /\ items # EmptyMap
  /\ DOMAIN clients = Sessions
  /\ Idle /\ Listening(op.key)

----------------------------------------------------------------------------
(* Properties of the schema update *)

\* the step completes a schema update: saveSchema is done
SchemaDone == cont.kind = "schema" /\ cont' = NoCont

\* C23: a schema update by owner or editor replaces the coordinator's schema,
\* persists it, writes it into the list's metadata record and sends
\* schema-changed with it to every registered session, the requester's own
\* included; no step of it changes an item, whatever fields the item has.
C23_SchemaReplaced ==
  [][/\ (op'.kind = "schema" /\ op'.phase = "start") =>
          /\ op'.role \in {"owner", "editor"}
          /\ schema' = cont'.schema
     /\ (op'.kind = "schema" /\ op'.phase = "kv") =>
          kvMeta'.schema = cont'.schema
     /\ SchemaDone =>
          /\ storage'.schema = schema'
          /\ \A k \in DOMAIN clients' :
               /\ Len(MsgsTo(emit', k)) = 1
               /\ MsgsTo(emit', k)[1].type = "schema-changed"
               /\ MsgsTo(emit', k)[1].schema = cont.schema
     /\ op'.kind = "schema" =>
          items' = items /\ storage'.items = storage.items]_vars

\* a schema without field g has been persisted and sent to a session while
\* an item still holds a value for g
C23_Witness ==
  /\ op.kind = "schema" /\ op.phase = "done"
  /\ schema = <<"f">> /\ storage.schema = <<"f">>
  /\ emit # <<>>
  /\ \E i \in DOMAIN items : items[i].fields["g"] = 1

----------------------------------------------------------------------------
(* Properties of repeated connects *)

\* this step and the one before it are connects with the same role
ConnectedTwice ==
  /\ op.kind = "connect" /\ op'.kind = "connect"
  /\ op.role = op'.role

\* C24: two connects with the same role and nothing in between make two
\* distinct registry entries and send both sessions the same snapshot content;
\* a connect leaves items, schema and ledger, in memory and persisted, as
\* they are.
C24_ConnectTwice ==
  [][/\ op'.kind = "connect" =>
          /\ items' = items /\ schema' = schema /\ yjsDocState' = yjsDocState
          /\ storage' = storage
     /\ ConnectedTwice =>
          /\ op'.key # op.key
          /\ {op.key, op'.key} \subseteq DOMAIN clients'
          /\ Cardinality(DOMAIN clients') = Cardinality(DOMAIN clients) + 1
          /\ MsgsTo(emit', op'.key) = MsgsTo(emit, op.key)
          /\ MsgsTo(emit', op'.key) # <<>>]_vars

\* the same user has connected twice in a row while the list holds an item
C24_Witness ==
  /\ op.kind = "connect" /\ op.key = 2
  /\ DOMAIN clients = Sessions
  /\ clients[1] = clients[2]
  /\ timers = MaxSessions
  /\ items # EmptyMap
  /\ MsgsTo(emit, 2) = <<ItemsChanged(items)>>

----------------------------------------------------------------------------
(* Properties of the toggle scenario *)

\* the step completes an editor's item-toggle that checks an item
ToggleChecked ==
  /\ cont.kind = "item-toggle" /\ cont' = NoCont
  /\ cont.role = "editor"
  /\ cont.messages[1].item.checked

\* the sessions of the owner
OwnerSessions == {k \in DOMAIN clients : clients[k].role = "owner"}

\* C25: when an editor has toggled an item checked, the owner's open session
\* receives item-updated with checked true and an updatedAt greater than the
\* updatedAt the item was created with, and the store holds the item, checked.
C25_ToggleNewer ==
  [][ToggleChecked =>
       LET item == cont.messages[1].item
       IN /\ \A k \in OwnerSessions :
               sock[k] = "open" => MsgsTo(emit', k) = <<ItemUpdated(item)>>
          /\ item.updatedAt > created[item.id]
          /\ storage'.items[item.id].checked]_vars

----------------------------------------------------------------------------
(* One client's connection: ListYjsProvider ("provider") or useListSync
   ("hook"), its socket, its status and its reconnect timers.  A socket is
   "connecting", "open", or "closing" (close() was called, the close event
   is still to come); when the connection fails the browser fires error and
   close in one task. *)

RECONNECT_INTERVAL == 2000

SyncLayers == {"provider", "hook"}

\* the status names of the two layers
Connecting(c) == IF c.client = "provider" THEN "connecting" ELSE "syncing"
Connected(c) == IF c.client = "provider" THEN "connected" ELSE "synced"
Disconnected(c) == IF c.client = "provider" THEN "disconnected" ELSE "offline"

\* a timer that is set after every close
TimerSet(c) == Append(c.timers, RECONNECT_INTERVAL)

\* a layer that sets no timer when its socket closes
TimerNotSet(c) == c.timers

\* ws.onclose: setTimeout(() => connect(), 2000)
onclose(c) == TimerSet(c)

\* everything but conn
rest == <<clients, sock, items, schema, listMeta, yjsDocState, storage, kvMeta,
          now, timers, pend, cont, op, emit, ref, scn, lastPresence, created,
          view, cli>>

\* the constructor / the effect has called connect(), which awaits getSession()
ConnInit ==
  /\ ListInit
  /\ scn.name = "edit"
  /\ view = <<>>
  /\ \E layer \in SyncLayers, token \in BOOLEAN :
       conn = [client |-> layer, token |-> token, alive |-> TRUE,
               phase |-> "session", ws |-> "none",
               status |-> IF layer = "provider" THEN "connecting" ELSE "offline",
               timers |-> <<>>, attempts |-> 1]

ConnStep(c) == conn' = c /\ UNCHANGED rest

\* getSession() has resolved without a token: connect returns
NoToken ==
  /\ conn.phase = "session" /\ ~conn.token
  /\ ConnStep([conn EXCEPT !.phase = "idle"])

\* getSession() has resolved with a token: new WebSocket(wsUrl)
SocketMade ==
  /\ conn.phase = "session" /\ conn.token
  /\ ConnStep([conn EXCEPT !.phase = "idle", !.ws = "connecting",
                           !.status = IF conn.client = "hook"
                                        THEN Connecting(conn) ELSE @])

\* new WebSocket(wsUrl) throws: the catch block
SocketThrows ==
  /\ conn.phase = "session" /\ conn.token
  /\ ConnStep([conn EXCEPT
       !.phase = "idle",
       !.status = IF conn.client = "provider" \/ conn.alive
                    THEN Disconnected(conn) ELSE @,
       !.timers = IF conn.client = "provider" /\ conn.alive
                    THEN Append(@, RECONNECT_INTERVAL) ELSE @])

\* ws.onopen
OnOpen ==
  /\ conn.ws = "connecting"
  /\ IF conn.alive
       THEN ConnStep([conn EXCEPT !.ws = "open", !.status = Connected(conn)])
       ELSE IF conn.client = "provider"
         THEN ConnStep([conn EXCEPT !.ws = "closing"])
         ELSE ConnStep([conn EXCEPT !.ws = "open"])

\* ws.onclose, after the connection failed (ws.onerror calls ws.close() first)
\* or after close() was called
OnSocketClose ==
  /\ conn.ws \in {"connecting", "open", "closing"}
  /\ IF conn.alive
       THEN ConnStep([conn EXCEPT !.ws = "none",
                                  !.status = Disconnected(conn),
                                  !.timers = onclose(conn)])
       ELSE ConnStep([conn EXCEPT
              !.ws = "none",
              !.status = IF conn.client = "provider"
                           THEN Disconnected(conn) ELSE @])

\* the reconnect timer fires: connect()
TimerFires ==
  /\ conn.timers # <<>>
  /\ conn.attempts < MaxAttempts
  /\ IF conn.alive
       THEN ConnStep([conn EXCEPT
              !.timers = Tail(@), !.phase = "session",
              !.attempts = @ + 1,
              !.status = IF conn.client = "provider"
                           THEN Connecting(conn) ELSE @])
       ELSE ConnStep([conn EXCEPT !.timers = Tail(@)])

\* ListYjsProvider.destroy / the effect's cleanup: the user closes the list
Destroy ==
  /\ conn.alive
  /\ ConnStep([conn EXCEPT
       !.alive = FALSE, !.timers = <<>>,
       !.ws = IF @ \in {"connecting", "open"} THEN "closing" ELSE @])

\* setSession / clearSession: the user signs in or out
SignIn == ~conn.token /\ ConnStep([conn EXCEPT !.token = TRUE])
SignOut == conn.token /\ ConnStep([conn EXCEPT !.token = FALSE])

ConnNext ==
  \/ NoToken
  \/ SocketMade
  \/ SocketThrows
  \/ OnOpen
  \/ OnSocketClose
  \/ TimerFires
  \/ Destroy
  \/ SignIn
  \/ SignOut

SpecConn == ConnInit /\ [][ConnNext]_vars

\* the runtime runs every handler that is due; the user need not do anything
ConnFair ==
  /\ WF_vars(NoToken)
  /\ WF_vars(SocketMade \/ SocketThrows)
  /\ WF_vars(OnOpen)
  /\ WF_vars(TimerFires)

SpecConnLive == SpecConn /\ ConnFair

----------------------------------------------------------------------------
(* Properties of the client connection *)

\* the layer has no socket and connect() is not running
Down == conn.ws = "none" /\ conn.phase = "idle"

\* C26: while the user has not closed the list, whenever the layer has no
\* connection a new call of connect() is eventually made, whatever ended the
\* last attempt: a close, an error, an exception from the WebSocket
\* constructor, or a missing session token.
C26_AlwaysRetries ==
  (conn.alive /\ Down /\ conn.attempts < MaxAttempts)
    ~> (conn.phase = "session" \/ ~conn.alive)

\* the close event of the layer's socket, while the list is open
SocketCloses == conn.alive /\ conn.ws # "none" /\ conn'.ws = "none"

\* the status becomes connected / synced
BecomesConnected ==
  conn.status # Connected(conn) /\ conn'.status = Connected(conn)

ConnTransitions ==
  /\ BecomesConnected =>
       /\ conn.status = Connecting(conn)
       /\ conn.ws = "connecting" /\ conn'.ws = "open"
  /\ SocketCloses =>
       /\ conn.status \in {Connecting(conn), Connected(conn)}
       /\ conn'.status = Disconnected(conn)
       /\ conn'.timers = <<2000>>
  /\ conn'.alive /\ conn'.status = Connected(conn) => conn'.ws = "open"

----------------------------------------------------------------------------
(* ListView's items state under the broadcasts useListSync hands to its
   callbacks *)

MaxArray == 2      \* items of one items-changed message
MaxView == 3       \* items ListView holds

ViewIds == {"a", "b", "c"}

ViewItems ==
  {[id |-> id, fields |-> DefaultFields, checked |-> c, updatedAt |-> 0] :
     id \in ViewIds, c \in BOOLEAN}

\* the arrays an items-changed message may carry
RECURSIVE Arrays(_)
Arrays(n) ==
  IF n = 0 THEN {<<>>}
  ELSE Arrays(n - 1)
         \cup {Append(a, x) : a \in {b \in Arrays(n - 1) : Len(b) = n - 1},
                               x \in ViewItems}

\* the messages about items
ItemBroadcasts ==
  {[type |-> "items-changed", items |-> arr] : arr \in Arrays(MaxArray)}
    \cup {ItemAdded(x) : x \in ViewItems}
    \cup {ItemUpdated(x) : x \in ViewItems}
    \cup {ItemDeleted(id) : id \in ViewIds}

\* the other messages of the coordinator
OtherBroadcasts ==
  {Presence(<<>>), SchemaChanged(Schema0),
   [type |-> "error", message |-> "Viewers cannot edit"]}

\* a frame: binary data (a Blob), a text that is a message, a text that
\* JSON.parse rejects
BlobFrame == [data |-> "blob"]
TextFrame(msg) == [data |-> "text", ok |-> TRUE, msg |-> msg]
BadFrame == [data |-> "text", ok |-> FALSE]

\* prev.some((p) => p.id === id)
RECURSIVE some(_, _)
some(prev, id) ==
  IF prev = <<>> THEN FALSE
  ELSE IF Head(prev).id = id THEN TRUE ELSE some(Tail(prev), id)

\* prev.map((p) => (p.id === item.id ? item : p))
RECURSIVE map(_, _)
map(prev, item) ==
  IF prev = <<>> THEN <<>>
  ELSE <<IF Head(prev).id = item.id THEN item ELSE Head(prev)>>
         \o map(Tail(prev), item)

\* prev.filter((p) => p.id !== itemId)
RECURSIVE filter(_, _)
filter(prev, itemId) ==
  IF prev = <<>> THEN <<>>
  ELSE (IF Head(prev).id # itemId THEN <<Head(prev)>> ELSE <<>>)
         \o filter(Tail(prev), itemId)

\* a callback that appends whatever arrives
AppendedAlways(prev, item) == prev \o <<item>>

\* ListView's callbacks
onItemsChanged(prev, newItems) == newItems
onItemAdded(prev, item) ==
  IF some(prev, item.id) THEN prev ELSE prev \o <<item>>
onItemUpdated(prev, item) == map(prev, item)
onItemDeleted(prev, itemId) == filter(prev, itemId)

\* useListSync's ws.onmessage, as far as ListView's items go
onmessage(prev, frame) ==
  IF frame.data = "blob" THEN prev
  ELSE IF ~frame.ok THEN prev
  ELSE LET msg == frame.msg
       IN CASE msg.type = "items-changed" -> onItemsChanged(prev, msg.items)
            [] msg.type = "item-added" -> onItemAdded(prev, msg.item)
            [] msg.type = "item-updated" -> onItemUpdated(prev, msg.item)
            [] msg.type = "item-deleted" -> onItemDeleted(prev, msg.itemId)
            [] OTHER -> prev

\* everything but view
notView == <<clients, sock, items, schema, listMeta, yjsDocState, storage,
             kvMeta, now, timers, pend, cont, op, emit, ref, scn,
             lastPresence, created, conn, cli>>

ViewInit == ListInit /\ scn.name = "edit" /\ conn = NoConn /\ view = <<>>

\* a frame arrives on the hook's socket
Receive(frame) == view' = onmessage(view, frame) /\ UNCHANGED notView

\* the items stay within the bound
Held == Len(view') <= MaxView

ItemsChangedArrives ==
  \E arr \in Arrays(MaxArray) :
    Receive(TextFrame([type |-> "items-changed", items |-> arr])) /\ Held
ItemAddedArrives ==
  \E x \in ViewItems : Receive(TextFrame(ItemAdded(x))) /\ Held
ItemUpdatedArrives ==
  \E x \in ViewItems : Receive(TextFrame(ItemUpdated(x))) /\ Held
ItemDeletedArrives ==
  \E id \in ViewIds : Receive(TextFrame(ItemDeleted(id))) /\ Held
OtherArrives ==
  \E frame \in {TextFrame(msg) : msg \in OtherBroadcasts}
                 \cup {BlobFrame, BadFrame} :
    Receive(frame) /\ Held

ViewNext ==
  \/ ItemsChangedArrives
  \/ ItemAddedArrives
  \/ ItemUpdatedArrives
  \/ ItemDeletedArrives
  \/ OtherArrives

SpecView == ViewInit /\ [][ViewNext]_vars

----------------------------------------------------------------------------
(* The owner's ListView with the coordinator: its items state under the
   messages the coordinator sends it, its own additions and its two loads,
   while requests of any client of the worker's API change the list *)

MirrorScn ==
  [name |-> "mirror", users |-> {"o"}, ids |-> {"a", "b"}, fields |-> {"f"},
   ledger |-> MaxLedger, kinds |-> {"connect", "add", "patch-id"}]

MirrorInit == OneItemStored /\ scn = MirrorScn

\* everything of the coordinator
srv == <<clients, sock, items, schema, listMeta, yjsDocState, storage, kvMeta,
         now, timers, pend, cont, op, emit, ref, scn, lastPresence, created,
         conn>>

\* the Item of a LocalItem
FromLocal(li) ==
  [id |-> li.id, fields |-> li.fields, checked |-> li.checked,
   updatedAt |-> li.updatedAt]

\* local.map(...) over getLocalItems(listId)
LocalArray(c) ==
  [i \in 1..Len(ItemsArray(c)) |-> FromLocal(ItemsArray(c)[i])]

\* upsertLocalItem(listId, item, true) for every item of an array
RECURSIVE upsertAll(_, _)
upsertAll(c, arr) ==
  IF arr = <<>> THEN c
  ELSE upsertAll(upsertLocalItem(c, Head(arr), TRUE), Tail(arr))

\* useListSync's ws.onmessage with ListView's callbacks
ViewReceive(k) ==
  /\ down[k] # <<>>
  /\ view' = onmessage(view, TextFrame(Head(down[k])))
  /\ cache' = [cache EXCEPT ![k] = persistMessage(@, Head(down[k]))]
  /\ down' = [down EXCEPT ![k] = Tail(@)]
  /\ UNCHANGED <<srv, mirror, up, http, acts, applied, announced, pendAct,
                 contAct, ydoc, base, hist>>

\* ListView.handleAddItem up to `await addItem(...)`: generateId() returns an
\* id nothing holds
ViewAdds(id) ==
  /\ acts < MaxActs
  /\ FreshId(id) /\ ~some(view, id)
  /\ LET newItem == [id |-> id, fields |-> DefaultFields, checked |-> FALSE,
                     updatedAt |-> now]
     IN /\ view' = view \o <<newItem>>
        /\ cache' = [cache EXCEPT ![1] = upsertLocalItem(@, newItem, FALSE)]
        /\ http' = http \cup
             {[route |-> "add", user |-> OwnerEmail, id |-> id, key |-> 1,
               item |-> newItem, act |-> acts + 1, state |-> "sent"]}
  /\ acts' = acts + 1
  /\ UNCHANGED <<srv, mirror, up, down, applied, announced, pendAct, contAct,
                 ydoc, base, hist>>

\* the load effect, first part: the items of the local table, if it has any
ViewLoadsLocal ==
  /\ cache[1] # EmptyMap
  /\ view' = LocalArray(cache[1])
  /\ UNCHANGED <<srv, cli>>

\* the load effect, second part: fetchList's items, which are
\* Array.from(this.items.values())
ViewLoads ==
  /\ Idle
  /\ view' = onItemsChanged(view, ItemsArray(items))
  /\ cache' = [cache EXCEPT ![1] = upsertAll(@, ItemsArray(items))]
  /\ UNCHANGED <<srv, mirror, up, down, http, acts, applied, announced,
                 pendAct, contAct, ydoc, base, hist>>

\* a client of the worker sends PATCH /item/:id with an id in the body
ApiPatch(itemId, id) ==
  /\ acts < MaxActs
  /\ acts' = acts + 1
  /\ http' = http \cup
       {[route |-> "update", user |-> OwnerEmail, id |-> itemId,
         updates |-> [id |-> id], act |-> acts + 1]}
  /\ UNCHANGED <<cvars, mirror, up, down, applied, announced, pendAct,
                 contAct, cache, ydoc, base, hist>>

MirrorNext ==
  \/ On("connect") /\ SyncConnect(OwnerEmail)
  \/ \E k \in Keys : ViewReceive(k)
  \/ \E id \in scn.ids : On("add") /\ ViewAdds(id)
  \/ \E r \in http : HttpAdd(r)
  \/ \E r \in http : AddAnswered(r)
  \/ \E i \in scn.ids, id \in ItemIds : On("patch-id") /\ ApiPatch(i, id)
  \/ \E r \in http : HttpUpdate(r)
  \/ \E p \in pend : SyncUpdateBody(p)
  \/ SyncStorageDone
  \/ ViewLoadsLocal
  \/ ViewLoads

SpecMirror == MirrorInit /\ [][MirrorNext]_vars

\* C28: whatever items ListView holds and whichever broadcast about items
\* arrives, the items afterwards are: for items-changed, the message's items;
\* for item-added, the old items with the item appended, or the old items if
\* one of them has that id; for item-updated, the old items with every item
\* of that id replaced by the message's, the old items if none has it; for
\* item-deleted, the old items without those of that id.
C28_MirrorIsReference ==
  [][\A msg \in ItemBroadcasts :
       Receive(TextFrame(msg)) =>
         LET ids == {view[i].id : i \in 1..Len(view)}
         IN view' =
              CASE msg.type = "items-changed" -> msg.items
                [] msg.type = "item-added" ->
                     IF msg.item.id \in ids THEN view
                                            ELSE Append(view, msg.item)
                [] msg.type = "item-updated" ->
                     IF msg.item.id \notin ids THEN view
                     ELSE [i \in 1..Len(view) |->
                             IF view[i].id = msg.item.id THEN msg.item
                                                         ELSE view[i]]
                [] msg.type = "item-deleted" ->
                     SelectSeq(view, LAMBDA x : x.id # msg.itemId)]_vars

\* a whole-array replacement that carried one id twice, then an append
C28_Witness ==
  /\ Len(view) = 3
  /\ view[1].id = view[2].id /\ view[3].id # view[1].id
  /\ view[1].checked /\ ~view[2].checked

----------------------------------------------------------------------------
(* Properties of sharing *)

\* the addresses of the shares of the index record
SharedWith == {kvMeta.shares[i].email : i \in 1..Len(kvMeta.shares)}

\* C29: whatever add-share, update-share and remove-share requests have run,
\* one after another or interleaved, the owner's address is not in the shares
\* of the index record and no two entries of the shares have one address,
\* letter case aside.
C29_SharesWellFormed ==
  /\ \A i \in 1..Len(kvMeta.shares) :
       toLowerCase(kvMeta.shares[i].email) # toLowerCase(kvMeta.ownerEmail)
  /\ \A i, j \in 1..Len(kvMeta.shares) :
       toLowerCase(kvMeta.shares[i].email) = toLowerCase(kvMeta.shares[j].email)
         => i = j

\* an add-share that began before another share request ended has written:
\* the user removed meanwhile is shared with again
C29_Witness ==
  /\ op.kind = "add-share" /\ op.phase = "done"
  /\ SharedWith = {"v", "e"}
  /\ kvMeta.shares[2].email = "e"
  /\ \E p \in pend : p.kind = "share" /\ p.meta.shares # kvMeta.shares

\* the sessions whose user the index record now gives another role, or none
Demoted ==
  {k \in DOMAIN clients :
     getUserRole(clients[k].email, kvMeta) # clients[k].role}

\* a message listener of session k has run
Handled(k) ==
  /\ op'.kind \in {"item-toggle", "item-update-fields", "binary", "crdt-update"}
  /\ op'.key = k
  /\ op'.phase \in {"start", "noop", "rejected"}

\* C30: a session keeps the role it was accepted with: no step changes the
\* role of a registered session, and a message of a session is rejected as a
\* viewer's exactly if the session was accepted as a viewer, whatever share
\* the index record holds for its user by then.
C30_RoleFixed ==
  [][/\ \A k \in DOMAIN clients \cap DOMAIN clients' :
          clients'[k].role = clients[k].role
     /\ \A k \in DOMAIN clients :
          Handled(k) =>
            (op'.phase = "rejected" <=> clients[k].role = "viewer")]_vars

\* an editor's session has toggled an item after the user's share was changed
\* to viewer or removed
C30_Witness ==
  /\ op.kind = "item-toggle" /\ op.phase = "start" /\ op.role = "editor"
  /\ op.key \in Demoted
  /\ kvMeta.ownerEmail = OwnerEmail
  /\ getUserRole(clients[op.key].email, kvMeta) \in {"viewer", "none"}
  /\ cont # NoCont

----------------------------------------------------------------------------
(* Properties of clear-done *)

\* the ids of the checked items
CheckedIds == {i \in DOMAIN items : items[i].checked}

\* POST /clear-done has run up to saveItems
ClearDoneStep == op'.kind = "clear-done" /\ op'.phase = "start"

\* C31: clear-done removes the items that are checked when it is called and
\* no others, leaves every unchecked item as it was, sends every open session
\* one item-deleted per removed id and nothing else, and answers with the
\* number of removed items.
C31_ClearDoneExact ==
  [][ClearDoneStep =>
       /\ DOMAIN items' = DOMAIN items \ CheckedIds
       /\ \A i \in DOMAIN items' : items'[i] = items[i]
       /\ \A k \in DOMAIN clients :
            sock[k] = "open" =>
              /\ Len(MsgsTo(emit', k)) = Cardinality(CheckedIds)
              /\ \A i \in CheckedIds :
                   \E n \in 1..Len(MsgsTo(emit', k)) :
                     MsgsTo(emit', k)[n] = ItemDeleted(i)
       /\ cont'.cleared = Cardinality(CheckedIds)
       /\ cont'.value = items']_vars

\* clear-done has removed a checked item and left an unchecked one, with a
\* session open
C31_Witness ==
  /\ op.kind = "clear-done" /\ op.phase = "start"
  /\ cont # NoCont /\ cont.kind = "clear-done" /\ cont.cleared = 1
  /\ DOMAIN items # {}
  /\ emit # <<>>

----------------------------------------------------------------------------
(* Properties of the ledger *)

\* the binary frames that are state-vector requests (type byte 0x01)
StateVectorFrames == {data \in Frames : data[1] = 1}

\* C33: a binary frame of type 0x01, the state-vector request a client sends
\* when its connection opens, leaves the ledger as it was: the coordinator
\* merges only update payloads.
C33_RequestNotMerged ==
  [][\A k \in Keys, data \in StateVectorFrames :
       OnBinary(k, data) => yjsDocState' = yjsDocState]_vars

----------------------------------------------------------------------------
(* Properties of closing a client *)

\* C35: a sync layer has at most one connection at a time, and once it is
\* closed (destroy, unmount) none of its connections is or becomes open and
\* no reconnect timer is pending, also when it is closed while connect() is
\* waiting for the stored session or while a close event is on its way.
C35_ClosedStaysClosed ==
  /\ conn.client # "none" => Len(conn.timers) <= 1
  /\ (conn.client # "none" /\ ~conn.alive) =>
       conn.ws # "open" /\ conn.timers = <<>>

----------------------------------------------------------------------------
(* Properties of the index record under schema updates *)

\* C38: no step of a schema update changes the shares of the index record:
\* what a reader of the record finds as shares is what the share requests
\* have written.
C38_SchemaKeepsShares ==
  [][op'.kind = "schema" => kvMeta'.shares = kvMeta.shares]_vars

----------------------------------------------------------------------------
(* Properties of the item map's keys *)

\* C37: every entry of the item map is stored under its own id, whatever
\* adds, updates (with any body), toggles, field updates, deletes and
\* clear-dones have run.
C37_KeyedById == \A k \in DOMAIN items : items[k].id = k

----------------------------------------------------------------------------
(* Properties of concurrent field changes *)

\* every message and request of the clients has been handled
AllApplied ==
  /\ Idle /\ pend = {} /\ http = {}
  /\ \A k \in Keys : up[k] = <<>>

\* the two user actions were changes of different fields of one item, made in
\* different sessions
TwoFieldChanges ==
  /\ hist.named[1].key # 0 /\ hist.named[2].key # 0
  /\ hist.named[1].key # hist.named[2].key
  /\ hist.named[1].id = hist.named[2].id
  /\ hist.named[1].field # hist.named[2].field

\* C36: when two editors have changed different fields of one item and the
\* coordinator has handled both changes, socket messages and HTTP updates
\* alike, the item holds both new values.
C36_BothFieldsKept ==
  (AllApplied /\ TwoFieldChanges /\ hist.named[1].id \in DOMAIN items) =>
    \A n \in 1..2 :
      items[hist.named[n].id].fields[hist.named[n].field] = hist.named[n].value

AnswersRequest(k) ==
  /\ down[k] # <<>>
  /\ Head(down[k]).type = "binary"
  /\ Len(Head(down[k]).data) > 0
  /\ Head(down[k]).data[1] = 1

C34_OfflineEditDelivered ==
  \A d \in Deltas, k \in Keys :
    (d \in hist.offline /\ d \in ydoc[k] /\ sock[k] = "open")
      ~> (d \in LedgerDeltas(yjsDocState) \/ sock[k] # "open")
\* C39: ListView's items never hold two items of one id, whatever the
\* order of its own additions, the messages about items and its two loads
C39_NoDuplicateIds ==
  \A i, j \in 1..Len(view) : i # j => view[i].id # view[j].id
====
